---- MODULE Spec2Model ----
(***************************************************************************)
(* A model of the kelal-link back end (src/app/main.py): the drop store    *)
(* (urls, bundles, clicks), the request handlers that create, edit, delete *)
(* and redirect drops, and the detached click-record write.                *)
(*                                                                         *)
(* Every handler runs in its own database session (src/app/database.py     *)
(* get_db).  A handler is split where it awaits the store: each step below *)
(* is one statement executed by the store, or one commit.  What a handler  *)
(* holds between two steps (the rows it loaded, its inputs, its response)  *)
(* is kept in its request slot req[r].                                     *)
(***************************************************************************)
EXTENDS Integers, Sequences, FiniteSets, Bags, TLC

(***************************************************************************)
(* Bounds of the model.                                                    *)
(***************************************************************************)
NumReq == 2        \* request slots: requests that can be in flight together
NumUsers == 3      \* registered users, ids 1..NumUsers
MaxId == 2         \* highest row id a table's sequence hands out
MaxNow == 2        \* the clock runs 0..MaxNow
MaxCap == 2        \* largest max_clicks a caller supplies
MaxClicks == 3     \* redirects that may resolve in one run
MaxCollabs == 2    \* highest id the collaborations sequence hands out
MaxNum == 1200     \* largest number handed to the codec
MaxPerReferer == 2 \* clicks a drop has received from one referrer

(***************************************************************************)
(* Optional values: Python's None is the empty set, a value v is {v}.      *)
(***************************************************************************)
None == {}
Some(v) == {v}
Val(o) == CHOOSE v \in o : TRUE

\* Python truthiness of an Optional[int], Optional[str] and Optional[bool].
TruthyInt(o) == o # None /\ Val(o) # 0
TruthyStr(o) == o # None /\ Val(o) # ""
TruthyBool(o) == o # None /\ Val(o) = TRUE

\* Python's `a or b` on optional strings.
OrStr(a, b) == IF TruthyStr(a) THEN a ELSE b

(***************************************************************************)
(* Strings.  str.lower(), `in` (substring) and str.startswith.             *)
(***************************************************************************)
\* The cased letters of ASCII and of Latin-1 (what a request header can
\* carry), each with the letter str.lower() gives for it.
UPPER == "ABCDEFGHIJKLMNOPQRSTUVWXYZÀÁÂÃÄÅÆÇÈÉÊËÌÍÎÏÐÑÒÓÔÕÖØÙÚÛÜÝÞ"
LOWER == "abcdefghijklmnopqrstuvwxyzàáâãäåæçèéêëìíîïðñòóôõöøùúûüýþ"

LowerChar(c) ==
  IF \E i \in 1..Len(UPPER) : SubSeq(UPPER, i, i) = c
    THEN LET i == CHOOSE i \in 1..Len(UPPER) : SubSeq(UPPER, i, i) = c
         IN SubSeq(LOWER, i, i)
    ELSE c

RECURSIVE Lower(_)
Lower(s) ==
  IF Len(s) = 0 THEN ""
  ELSE LowerChar(SubSeq(s, 1, 1)) \o Lower(SubSeq(s, 2, Len(s)))

Contains(hay, needle) ==
  \E i \in 1..(Len(hay) - Len(needle) + 1) :
     SubSeq(hay, i, i + Len(needle) - 1) = needle

StartsWith(s, p) == Len(s) >= Len(p) /\ SubSeq(s, 1, Len(p)) = p

(***************************************************************************)
(* The identifier codec (src/app/utils/amharic.py).  The alphabet's 33     *)
(* Ethiopic letters are written by their code points.                      *)
(***************************************************************************)
ALPHABET ==
  << "u1200", "u1208", "u1210", "u1218", "u1220", "u1228", "u1230", "u1238",
     "u1240", "u1260", "u1270", "u1278", "u1280", "u1290", "u1298", "u12a0",
     "u12a8", "u12b8", "u12c8", "u12d0", "u12d8", "u12e0", "u12e8", "u12f0",
     "u1300", "u1308", "u1320", "u1328", "u1330", "u1338", "u1340", "u1348",
     "u1350" >>
BASE == Len(ALPHABET)

\* The digits of num, most significant first (the loop and arr.reverse()).
RECURSIVE Digits(_)
Digits(num) ==
  IF num = 0 THEN ""
  ELSE Digits(num \div BASE) \o ALPHABET[(num % BASE) + 1]

\* A faulty encoder, one that would leave out arr.reverse().
RECURSIVE DigitsLsbFirst(_)
DigitsLsbFirst(num) ==
  IF num = 0 THEN ""
  ELSE ALPHABET[(num % BASE) + 1] \o DigitsLsbFirst(num \div BASE)

encodeLsbFirst(num) == IF num = 0 THEN ALPHABET[1] ELSE DigitsLsbFirst(num)

encode(num) == IF num = 0 THEN ALPHABET[1] ELSE Digits(num)

\* A letter of the alphabet takes this many characters as written here.
LetterLen == Len(ALPHABET[1])

\* ALPHABET.index(char): the position of the first occurrence, from 0.
Index(char) ==
  (CHOOSE i \in 1..BASE :
      ALPHABET[i] = char /\ \A j \in 1..(i - 1) : ALPHABET[j] # char) - 1

\* The loop of decode: num = num * BASE + ALPHABET.index(char), letter by
\* letter from the left.
RECURSIVE DecodeFrom(_, _)
DecodeFrom(slug, num) ==
  IF slug = "" THEN num
  ELSE DecodeFrom(SubSeq(slug, LetterLen + 1, Len(slug)),
                  num * BASE + Index(SubSeq(slug, 1, LetterLen)))

decode(slug) == DecodeFrom(slug, 0)

(***************************************************************************)
(* Configuration and fixed values.                                         *)
(***************************************************************************)
FRONTEND_URL == "http://localhost:3000"
BotSignatures ==
  {"bot", "crawler", "spider", "whatsapp", "telegram", "facebook", "slack",
   "discord"}
ReservedSlugs == {"api", "studio", "create", "dashboard", "stats"}

\* hashlib.sha256(p.encode()).hexdigest(): one-way, deterministic, unsalted.
Sha256(p) == "sha256:" \o p

Users == 1..NumUsers
Reqs == 1..NumReq

(***************************************************************************)
(* State.                                                                  *)
(*   urls, bundles, clicks, collabs, the tables of src/app/models.py, each *)
(*   notifs                          a function from row id to row         *)
(*   next_url_id, next_bundle_id,    the tables' id sequences: a value     *)
(*   next_click_id, next_collab_id,  handed out is never handed out again, *)
(*   next_notif_id                   whether the INSERT that drew it       *)
(*                                   succeeded or its row was deleted      *)
(*   req                             the request slots                     *)
(*   tasks                           click-record writes handed to         *)
(*                                   BackgroundTasks and not yet run       *)
(*   now                             the clock                             *)
(*   resolved                        history: per drop, how many redirect  *)
(*                                   requests have returned Resolve        *)
(* A slot holds what its handler holds between two awaits: the rows it has *)
(* loaded, the results of SELECTs it has yet to read (seen, rows), the     *)
(* owners it may act for (eligible), the columns its session has written   *)
(* ahead of the commit (flushed).  Its pre field is history too: the    *)
(* drops as the request found them, which no handler reads.                *)
(***************************************************************************)
VARIABLES urls, bundles, clicks, collabs, notifs, next_url_id,
          next_bundle_id, next_click_id, next_collab_id, next_notif_id,
          req, tasks, now, resolved

vars == << urls, bundles, clicks, collabs, notifs, next_url_id,
           next_bundle_id, next_click_id, next_collab_id, next_notif_id,
           req, tasks, now, resolved >>

tables == << urls, bundles, clicks, collabs, notifs >>
seqs == << next_url_id, next_bundle_id, next_click_id, next_collab_id,
          next_notif_id >>

\* A request slot nobody uses.
IdleReq ==
  [ op |-> "", pc |-> "idle", user |-> None, slug |-> "", ua |-> "",
    data |-> << >>, kind |-> "", obj |-> None, loaded |-> None,
    seen |-> {}, eligible |-> {}, rows |-> << >>, cascade |-> {},
    flushed |-> {},
    pre |-> None,
    out |-> "", render |-> "", target |-> "", noref |-> FALSE,
    task |-> None, made |-> None, role |-> None, body |-> "" ]

Init ==
  /\ urls = << >>
  /\ bundles = << >>
  /\ clicks = << >>
  /\ collabs = << >>
  /\ notifs = << >>
  /\ next_url_id = 1
  /\ next_bundle_id = 1
  /\ next_click_id = 1
  /\ next_collab_id = 1
  /\ next_notif_id = 1
  /\ req = [r \in Reqs |-> IdleReq]
  /\ tasks = EmptyBag
  /\ now = 0
  /\ resolved = [k \in {} |-> 0]

(***************************************************************************)
(* Store queries.                                                          *)
(***************************************************************************)
\* select(models.URL).where(models.URL.slug == slug): ids of matching rows.
UrlsBySlug(slug) == {i \in DOMAIN urls : urls[i].slug = slug}
BundlesBySlug(slug) == {i \in DOMAIN bundles : bundles[i].slug = slug}

UrlSlugs == {urls[i].slug : i \in DOMAIN urls}
BundleSlugs == {bundles[i].slug : i \in DOMAIN bundles}

\* A faulty test, one that would read the result of the first SELECT alone.
SlugTakenUrlsOnly(res_url, res_bundle) == res_url # {}

\* The test a handler makes before it takes a custom slug, on the results
\* of its two existence SELECTs.
SlugTaken(res_url, res_bundle) == res_url # {} \/ res_bundle # {}

\* The unique index on urls.slug / bundles.slug: may row `id` carry `slug`?
UrlSlugFree(id, slug) == \A i \in DOMAIN urls : i # id => urls[i].slug # slug
BundleSlugFree(id, slug) ==
  \A i \in DOMAIN bundles : i # id => bundles[i].slug # slug

\* History kept with a request: the tables as they were when it arrived.
Snapshot ==
  Some([urls |-> urls, bundles |-> bundles, collabs |-> collabs,
        notifs |-> notifs])

\* A function extended or overwritten at one point.
Put(f, k, v) == [x \in DOMAIN f \cup {k} |-> IF x = k THEN v ELSE f[x]]
Drop(f, k) == [x \in DOMAIN f \ {k} |-> f[x]]

\* Requests in flight that will still draw an id from a sequence.
PendingInserts(op) ==
  Cardinality({q \in Reqs : /\ req[q].op = op
                            /\ req[q].pc \in {"select_bundle", "insert",
                                               "flush"}})

Quiet == \A q \in Reqs : req[q].pc = "idle"

\* The session flushes pending changes before every statement, and what a
\* flush has written stays locked until the transaction ends.  An UPDATE of
\* a bundle flushed ahead of the commit holds the row: an UPDATE or DELETE
\* of the row by another session waits.
RowHeld(r, bid) ==
  \E q \in Reqs \ {r} : /\ req[q].op = "update_bundle"
                        /\ req[q].pc \in {"check_bundle", "commit"}
                        /\ req[q].flushed # {}
                        /\ Val(req[q].loaded).id = bid

\* A collaboration row inserted ahead of the commit shares the key of the
\* bundle it references: a DELETE of the bundle, or an UPDATE of one of its
\* unique columns, by another session waits.
KeyShared(r, bid) ==
  \E q \in Reqs \ {r} : /\ req[q].op = "invite_collaborator"
                        /\ req[q].pc = "commit"
                        /\ req[q].made # None
                        /\ Val(req[q].obj).bundle_id = Some(bid)

\* The columns of bundles under a unique index.
KeyColumns == {"slug", "manager_token", "analyst_token"}

(***************************************************************************)
(* shorten_url (POST /shorten).                                            *)
(***************************************************************************)
\* expires_at as shorten_url computes it: expires_in only fills a gap.
UrlExpiry(data) ==
  IF data.expires_at = None /\ TruthyInt(data.expires_in)
    THEN Some(now + Val(data.expires_in))
    ELSE data.expires_at

HashedPassword(data) ==
  IF TruthyStr(data.password) THEN Some(Sha256(Val(data.password))) ELSE None

\* A column with a default: the INSERT leaves out an attribute that is None
\* and the column takes its default.
ColumnDefault(value, default) == IF value = None THEN default ELSE value

\* models.URL(...) as shorten_url fills it; clicks takes the column default,
\* and so does is_cloaked when the body gives null.
NewURL(id, slug, user, data) ==
  [ id |-> id, user_id |-> user, long_url |-> data.long_url, slug |-> slug,
    clicks |-> 0, is_cloaked |-> ColumnDefault(data.is_cloaked, Some(FALSE)),
    max_clicks |-> data.max_clicks, expires_at |-> UrlExpiry(data),
    password |-> HashedPassword(data), meta_title |-> data.meta_title,
    meta_description |-> data.meta_description ]

\* First step.  With a custom slug: the first existence SELECT, on urls,
\* whose result the handler reads after the second.  Without: the row is
\* added with slug "" and committed.
ShortenStart(r, user, data) ==
  /\ req[r].pc = "idle"
  /\ next_url_id + PendingInserts("shorten_url") <= MaxId
  /\ LET base == [IdleReq EXCEPT !.op = "shorten_url", !.user = user,
                                 !.data = data,
                                 !.pre = Snapshot]
     IN IF TruthyStr(data.custom_slug)
          THEN /\ req' = [req EXCEPT ![r] =
                   [base EXCEPT !.pc = "select_bundle",
                                !.seen = IF UrlsBySlug(Val(data.custom_slug))
                                              # {}
                                           THEN {"url"} ELSE {},
                                !.obj = Some(NewURL(0, Val(data.custom_slug),
                                                    user, data))]]
               /\ UNCHANGED << urls, next_url_id >>
          ELSE /\ next_url_id' = next_url_id + 1
               /\ IF UrlSlugFree(next_url_id, "")
                    THEN /\ urls' = Put(urls, next_url_id,
                                        NewURL(next_url_id, "", user, data))
                         /\ req' = [req EXCEPT ![r] =
                               [base EXCEPT !.pc = "refresh",
                                            !.made = Some(next_url_id)]]
                    ELSE /\ urls' = urls
                         /\ req' = [req EXCEPT ![r] =
                               [base EXCEPT !.pc = "done", !.out = "Error"]]
  /\ UNCHANGED << bundles, clicks, collabs, notifs, next_bundle_id, next_click_id,
                  next_collab_id, next_notif_id,
                  tasks, now, resolved >>

\* The second existence SELECT, on bundles, and the test of both results.
ShortenSelectBundle(r) ==
  /\ req[r].op = "shorten_url" /\ req[r].pc = "select_bundle"
  /\ LET slug == Val(req[r].data.custom_slug)
     IN req' = [req EXCEPT ![r] =
          IF SlugTaken(req[r].seen, BundlesBySlug(slug))
            THEN [@ EXCEPT !.pc = "done", !.out = "SlugConflict",
                           !.obj = None]
            ELSE [@ EXCEPT !.pc = "insert", !.slug = slug]]
  /\ UNCHANGED << tables, seqs, tasks, now, resolved >>

\* db.add(new_url); db.commit() with the custom slug.
ShortenInsert(r) ==
  /\ req[r].op = "shorten_url" /\ req[r].pc = "insert"
  /\ next_url_id' = next_url_id + 1
  /\ IF UrlSlugFree(next_url_id, req[r].slug)
       THEN /\ urls' = Put(urls, next_url_id,
                           [Val(req[r].obj) EXCEPT !.id = next_url_id])
            /\ req' = [req EXCEPT ![r].pc = "done", ![r].out = "Created",
                                  ![r].made = Some(next_url_id)]
       ELSE /\ urls' = urls
            /\ req' = [req EXCEPT ![r].pc = "done", ![r].out = "Error"]
  /\ UNCHANGED << bundles, clicks, collabs, notifs, next_bundle_id, next_click_id,
                  next_collab_id, next_notif_id,
                  tasks, now, resolved >>

\* db.refresh(new_url): the row is read back by its id.  A row deleted since
\* the first commit fails the request.
ShortenRefresh(r) ==
  /\ req[r].op = "shorten_url" /\ req[r].pc = "refresh"
  /\ LET id == Val(req[r].made)
     IN req' = [req EXCEPT ![r] =
          IF id \in DOMAIN urls
            THEN [@ EXCEPT !.pc = "assign", !.obj = Some(urls[id])]
            ELSE [@ EXCEPT !.pc = "done", !.out = "Error"]]
  /\ UNCHANGED << tables, seqs, tasks, now, resolved >>

\* new_url.slug = amharic.encode(new_url.id); commit: the UPDATE of the slug
\* column, when the value differs from the one read back, under the unique
\* index on urls.slug.
ShortenAssign(r) ==
  /\ req[r].op = "shorten_url" /\ req[r].pc = "assign"
  /\ LET id == Val(req[r].made)
         slug == encode(id)
     IN IF slug = Val(req[r].obj).slug
          THEN /\ urls' = urls
               /\ req' = [req EXCEPT ![r].pc = "done", ![r].out = "Created",
                                     ![r].slug = slug]
        ELSE IF id \in DOMAIN urls /\ UrlSlugFree(id, slug)
          THEN /\ urls' = [urls EXCEPT ![id].slug = slug]
               /\ req' = [req EXCEPT ![r].pc = "done", ![r].out = "Created",
                                     ![r].slug = slug]
          ELSE /\ urls' = urls
               /\ req' = [req EXCEPT ![r].pc = "done", ![r].out = "Error"]
  /\ UNCHANGED << bundles, clicks, collabs, notifs, seqs, tasks, now, resolved >>

(***************************************************************************)
(* create_bundle (POST /bundle).                                           *)
(***************************************************************************)
\* expires_at as create_bundle computes it: expires_in overrides.
BundleExpiry(data) ==
  IF TruthyInt(data.expires_in)
    THEN Some(now + Val(data.expires_in))
    ELSE data.expires_at

\* secrets.token_urlsafe(16): a fresh value per call.
FreshToken(tag, id) == tag \o ToString(id)

\* models.Bundle(...) as create_bundle fills it.  access_level is not passed
\* on and takes the column default; items keep label and url only.  Of the
\* styling columns theme_color stands for the five colours (each with a
\* column default) and bg_image for the two images (nullable).
NewBundle(id, slug, user, data) ==
  [ id |-> id, user_id |-> user, slug |-> slug, title |-> data.title,
    description |-> data.description,
    items |-> [i \in DOMAIN data.items |->
                 [label |-> data.items[i].label, url |-> data.items[i].url]],
    theme_color |-> ColumnDefault(data.theme_color, Some("#00f2ff")),
    bg_image |-> data.bg_image,
    access_level |-> "restricted", clicks |-> 0,
    is_cloaked |-> ColumnDefault(data.is_cloaked, Some(FALSE)),
    max_clicks |-> data.max_clicks,
    expires_at |-> BundleExpiry(data), password |-> HashedPassword(data),
    meta_title |-> data.meta_title,
    meta_description |-> data.meta_description,
    manager_token |-> Some(FreshToken("mt", id)),
    analyst_token |-> Some(FreshToken("at", id)) ]

\* The slug create_bundle leaves on row `id`.
BundleSlug(id, custom) ==
  IF TruthyStr(custom) THEN Val(custom) ELSE "b-" \o encode(id)

\* expires_at as the handler has it once the existence checks are over.
WithExpiry(data) ==
  [data EXCEPT !.expires_at = BundleExpiry(data), !.expires_in = None]

\* Slugs on bundle rows that other requests have flushed and not yet
\* committed.  Such a row is invisible to a SELECT, and a write of its slug
\* waits until the request that holds it commits or fails.
HeldBundleSlugs(r) ==
  { Val(req[q].obj).slug :
      q \in { q \in Reqs \ {r} : /\ req[q].op = "create_bundle"
                                 /\ req[q].pc = "commit" } }

\* db.add(new_bundle); db.flush(): the INSERT, with the custom slug or "",
\* under the unique index on bundles.slug.  The row takes its id, and
\* while another request holds its slug the statement waits; otherwise
\* the row is stored uncommitted, or the index rejects it.  q is the
\* request as it stands before the flush, its expires_at computed.
BundleAdd(r, q) ==
  LET id == next_bundle_id
      slug == IF TruthyStr(q.data.custom_slug)
                THEN Val(q.data.custom_slug) ELSE ""
      row == NewBundle(id, slug, q.user, q.data)
  IN /\ next_bundle_id' = id + 1
     /\ req' = [req EXCEPT ![r] =
          IF slug \in HeldBundleSlugs(r)
            THEN [q EXCEPT !.pc = "blocked", !.obj = Some(row)]
          ELSE IF BundleSlugFree(id, slug)
            THEN [q EXCEPT !.pc = "commit", !.made = Some(id),
                           !.obj = Some(row)]
            ELSE [q EXCEPT !.pc = "done", !.out = "Error"]]

\* First step.  With a custom slug: the first existence SELECT, on urls,
\* whose result the handler reads after the second.  Without: expires_at
\* is computed and nothing is awaited before the flush.
BundleStart(r, user, data) ==
  /\ req[r].pc = "idle"
  /\ next_bundle_id + PendingInserts("create_bundle") <= MaxId
  /\ LET base == [IdleReq EXCEPT !.op = "create_bundle", !.user = user,
                                 !.data = data, !.pre = Snapshot]
     IN IF TruthyStr(data.custom_slug)
          THEN /\ req' = [req EXCEPT ![r] =
                   [base EXCEPT !.pc = "select_bundle",
                                !.seen = IF UrlsBySlug(Val(data.custom_slug))
                                              # {}
                                           THEN {"url"} ELSE {}]]
               /\ UNCHANGED next_bundle_id
          ELSE BundleAdd(r, [base EXCEPT !.data = WithExpiry(data)])
  /\ UNCHANGED << tables, next_url_id, next_click_id, next_collab_id,
                  next_notif_id, tasks, now, resolved >>

\* The second existence SELECT, on bundles, the test of both results, and
\* expires_at.
BundleSelectBundle(r) ==
  /\ req[r].op = "create_bundle" /\ req[r].pc = "select_bundle"
  /\ LET slug == Val(req[r].data.custom_slug)
     IN req' = [req EXCEPT ![r] =
          IF SlugTaken(req[r].seen, BundlesBySlug(slug))
            THEN [@ EXCEPT !.pc = "done", !.out = "SlugConflict"]
            ELSE [@ EXCEPT !.pc = "flush", !.slug = slug,
                           !.data = WithExpiry(req[r].data)]]
  /\ UNCHANGED << tables, seqs, tasks, now, resolved >>

\* The flush of a request that passed the existence checks.
BundleFlush(r) ==
  /\ req[r].op = "create_bundle" /\ req[r].pc = "flush"
  /\ BundleAdd(r, req[r])
  /\ UNCHANGED << tables, next_url_id, next_click_id, next_collab_id,
                  next_notif_id, tasks, now, resolved >>

\* The INSERT that waited goes on once no other request holds its slug:
\* the row is stored uncommitted, or the index rejects it.
BundleResume(r) ==
  /\ req[r].op = "create_bundle" /\ req[r].pc = "blocked"
  /\ LET row == Val(req[r].obj)
     IN /\ row.slug \notin HeldBundleSlugs(r)
        /\ req' = [req EXCEPT ![r] =
             IF BundleSlugFree(row.id, row.slug)
               THEN [@ EXCEPT !.pc = "commit", !.made = Some(row.id)]
               ELSE [@ EXCEPT !.pc = "done", !.out = "Error",
                              !.obj = None]]
  /\ UNCHANGED << tables, seqs, tasks, now, resolved >>

\* `if not slug: new_bundle.slug = "b-" + encode(id)`; db.commit(): the
\* UPDATE of the slug when it was generated, under the unique index, and the
\* COMMIT that lets other requests see the row.
BundleCommit(r) ==
  /\ req[r].op = "create_bundle" /\ req[r].pc = "commit"
  /\ LET row == Val(req[r].obj)
         slug == BundleSlug(row.id, req[r].data.custom_slug)
     IN /\ slug # row.slug => slug \notin HeldBundleSlugs(r)
        /\ IF slug = row.slug \/ BundleSlugFree(row.id, slug)
             THEN /\ bundles' = Put(bundles, row.id,
                                    [row EXCEPT !.slug = slug])
                  /\ req' = [req EXCEPT ![r].pc = "refresh",
                                        ![r].slug = slug,
                                        ![r].obj = Some([row EXCEPT
                                                           !.slug = slug])]
             ELSE /\ bundles' = bundles
                  /\ req' = [req EXCEPT ![r].pc = "done", ![r].out = "Error"]
  /\ UNCHANGED << urls, clicks, collabs, notifs, seqs, tasks, now, resolved >>

\* db.refresh(new_bundle): the row is read back by its id.  A row deleted
\* since the commit fails the request.
BundleRefresh(r) ==
  /\ req[r].op = "create_bundle" /\ req[r].pc = "refresh"
  /\ LET id == Val(req[r].made)
     IN req' = [req EXCEPT ![r] =
          IF id \in DOMAIN bundles
            THEN [@ EXCEPT !.pc = "done", !.out = "Created",
                           !.obj = Some(bundles[id])]
            ELSE [@ EXCEPT !.pc = "done", !.out = "Error"]]
  /\ UNCHANGED << tables, seqs, tasks, now, resolved >>

(***************************************************************************)
(* Who may act on a drop.                                                  *)
(***************************************************************************)
\* A faulty pool, one that would read the grants in the other direction.
GlobalOwnerIdsSwapped(uid) ==
  { collabs[c].collaborator_id :
      c \in { c \in DOMAIN collabs : /\ collabs[c].owner_id = uid
                                      /\ collabs[c].bundle_id = None } }

\* Owners that made user `uid` a global collaborator (bundle_id IS NULL).
GlobalOwnerIds(uid) ==
  { collabs[c].owner_id :
      c \in { c \in DOMAIN collabs : /\ collabs[c].collaborator_id = uid
                                      /\ collabs[c].bundle_id = None } }

\* all_eligible_owner_ids; empty for an anonymous requester.
EligibleOwnerIds(user) ==
  IF user = None THEN {} ELSE {Val(user)} \cup GlobalOwnerIds(Val(user))

\* `row.user_id in all_eligible_owner_ids`: a null owner is in no list.
OwnerIn(owner, eligible) == owner # None /\ Val(owner) \in eligible

\* The fields a commit writes: those the handler set to a new value.  The
\* UPDATE leaves the row's other columns as the store holds them.
Merge(cur, loaded, new) ==
  [f \in DOMAIN cur |-> IF new[f] # loaded[f] THEN new[f] ELSE cur[f]]

(***************************************************************************)
(* update_url (PUT /api/url/{slug}).                                       *)
(***************************************************************************)
WantsSlug(data, slug) ==
  TruthyStr(data.custom_slug) /\ Val(data.custom_slug) # slug

PatchUrl(u, slug, data) ==
  [u EXCEPT
     !.slug = IF WantsSlug(data, slug) THEN Val(data.custom_slug) ELSE @,
     !.long_url = IF TruthyStr(data.long_url) THEN Val(data.long_url) ELSE @,
     !.max_clicks = IF data.max_clicks # None THEN data.max_clicks ELSE @,
     !.expires_at = IF data.expires_at # None THEN data.expires_at ELSE @,
     !.password = IF TruthyStr(data.password)
                    THEN Some(Sha256(Val(data.password))) ELSE @,
     !.meta_title = IF data.meta_title # None THEN data.meta_title ELSE @,
     !.meta_description = IF data.meta_description # None
                            THEN data.meta_description ELSE @,
     !.is_cloaked = IF data.is_cloaked # None THEN data.is_cloaked ELSE @]

\* The columns a commit writes: those the handler set to a value other than
\* the one it loaded.
Changed(loaded, new) == {f \in DOMAIN new : new[f] # loaded[f]}

\* First step: SELECT the caller's global collaborations.  The handler reads
\* user.id without testing user: an anonymous request fails there.
UpdateUrlStart(r, user, slug, data) ==
  /\ req[r].pc = "idle"
  /\ LET base == [IdleReq EXCEPT !.op = "update_url", !.user = user,
                                 !.slug = slug, !.data = data,
                                 !.pre = Snapshot]
     IN req' = [req EXCEPT ![r] =
          IF user = None
            THEN [base EXCEPT !.pc = "done", !.out = "Error"]
            ELSE [base EXCEPT !.pc = "select_url",
                              !.eligible = EligibleOwnerIds(user)]]
  /\ UNCHANGED << tables, seqs, tasks, now, resolved >>

\* SELECT the row by slug among the eligible owners.  Without a new slug
\* the assignments follow at once.
UpdateUrlSelect(r) ==
  /\ req[r].op = "update_url" /\ req[r].pc = "select_url"
  /\ LET found == { i \in UrlsBySlug(req[r].slug) :
                      OwnerIn(urls[i].user_id, req[r].eligible) }
         u == urls[CHOOSE i \in found : TRUE]
     IN req' = [req EXCEPT ![r] =
          IF found = {}
            THEN [@ EXCEPT !.pc = "done", !.out = "NotFound"]
          ELSE IF WantsSlug(req[r].data, req[r].slug)
            THEN [@ EXCEPT !.pc = "check_url", !.kind = "url",
                           !.loaded = Some(u)]
          ELSE [@ EXCEPT !.pc = "commit", !.kind = "url", !.loaded = Some(u),
                         !.obj = Some(PatchUrl(u, req[r].slug, req[r].data))]]
  /\ UNCHANGED << tables, seqs, tasks, now, resolved >>

\* SELECT urls by the new slug.
UpdateUrlCheckUrl(r) ==
  /\ req[r].op = "update_url" /\ req[r].pc = "check_url"
  /\ req' = [req EXCEPT ![r] =
       IF UrlsBySlug(Val(req[r].data.custom_slug)) # {}
         THEN [@ EXCEPT !.pc = "done", !.out = "SlugConflict"]
         ELSE [@ EXCEPT !.pc = "check_bundle"]]
  /\ UNCHANGED << tables, seqs, tasks, now, resolved >>

\* SELECT bundles by the new slug, then the assignments to the loaded row.
UpdateUrlCheckBundle(r) ==
  /\ req[r].op = "update_url" /\ req[r].pc = "check_bundle"
  /\ req' = [req EXCEPT ![r] =
       IF BundlesBySlug(Val(req[r].data.custom_slug)) # {}
         THEN [@ EXCEPT !.pc = "done", !.out = "SlugConflict"]
         ELSE [@ EXCEPT !.pc = "commit",
                        !.obj = Some(PatchUrl(Val(req[r].loaded), req[r].slug,
                                              req[r].data))]]
  /\ UNCHANGED << tables, seqs, tasks, now, resolved >>

\* db.commit(): the UPDATE of the changed columns, if any.  The unique index
\* on urls.slug is consulted when slug is among them; a row deleted since it
\* was loaded fails the UPDATE.
UpdateUrlCommit(r) ==
  /\ req[r].op = "update_url" /\ req[r].pc = "commit"
  /\ LET old == Val(req[r].loaded)
         new == Val(req[r].obj)
         cols == Changed(old, new)
     IN IF cols = {}
          THEN /\ urls' = urls
               /\ req' = [req EXCEPT ![r].pc = "refresh"]
        ELSE IF /\ old.id \in DOMAIN urls
                /\ "slug" \in cols => UrlSlugFree(old.id, new.slug)
          THEN /\ urls' = [urls EXCEPT ![old.id] = Merge(@, old, new)]
               /\ req' = [req EXCEPT ![r].pc = "refresh"]
          ELSE /\ urls' = urls
               /\ req' = [req EXCEPT ![r].pc = "done", ![r].out = "Error"]
  /\ UNCHANGED << bundles, clicks, collabs, notifs, seqs, tasks, now, resolved >>

\* db.refresh(url_obj): the row is read back by its id.  A row deleted
\* since the commit fails the request.
UpdateUrlRefresh(r) ==
  /\ req[r].op = "update_url" /\ req[r].pc = "refresh"
  /\ LET id == Val(req[r].loaded).id
     IN req' = [req EXCEPT ![r] =
          IF id \in DOMAIN urls
            THEN [@ EXCEPT !.pc = "done", !.out = "Updated",
                           !.obj = Some(urls[id])]
            ELSE [@ EXCEPT !.pc = "done", !.out = "Error"]]
  /\ UNCHANGED << tables, seqs, tasks, now, resolved >>

(***************************************************************************)
(* update_bundle (PUT /api/bundle/{slug}).                                 *)
(***************************************************************************)
\* Collaboration rows of user `uid` scoped to bundle `bid`.
SpecificCollabs(uid, bid) ==
  { c \in DOMAIN collabs : /\ collabs[c].collaborator_id = uid
                           /\ collabs[c].bundle_id = Some(bid) }

\* The role update_bundle and get_drop_details compute from the owner
\* comparison and the global pool.
OwnerRole(user, b, eligible) ==
  LET authorized == OwnerIn(b.user_id, eligible)
  IN [ authorized |-> authorized,
       role |-> IF b.user_id = user THEN Some("owner")
                ELSE IF authorized THEN Some("manager")
                ELSE None ]

\* The role on the bundle's own collaboration row: `failed` is
\* scalar_one_or_none() meeting more than one row.
CollabRole(rows) ==
  [ failed |-> Cardinality(rows) > 1,
    role |-> IF Cardinality(rows) = 1
               THEN collabs[CHOOSE c \in rows : TRUE].role ELSE None ]

\* A faulty test, one that would let a requester without role pass.
IsOwnerOrManagerOrNone(role) ==
  role \in {Some("owner"), Some("manager"), None}

\* is_owner_or_manager
IsOwnerOrManager(role) == role \in {Some("owner"), Some("manager")}

\* can_edit
CanEdit(role, b) ==
  IsOwnerOrManager(role) \/ (~TruthyStr(role) /\ b.access_level = "edit")

\* The assignments of update_bundle: the permission-locked fields for an
\* owner or manager, then the content fields, then the token safety net.
PatchBundle(b, slug, data, role) ==
  LET om == IsOwnerOrManager(role)
  IN [b EXCEPT
       !.access_level = IF om /\ data.access_level # None
                          THEN Val(data.access_level) ELSE @,
       !.slug = IF om /\ WantsSlug(data, slug)
                  THEN Val(data.custom_slug) ELSE @,
       !.password = IF om /\ TruthyStr(data.password)
                      THEN Some(Sha256(Val(data.password))) ELSE @,
       !.max_clicks = IF om /\ data.max_clicks # None
                        THEN data.max_clicks ELSE @,
       !.expires_at = IF om /\ data.expires_at # None
                        THEN data.expires_at ELSE @,
       !.is_cloaked = IF om /\ data.is_cloaked # None
                        THEN data.is_cloaked ELSE @,
       !.title = IF TruthyStr(data.title) THEN Val(data.title) ELSE @,
       !.description = IF data.description # None
                         THEN data.description ELSE @,
       !.items = IF data.items # None THEN Val(data.items) ELSE @,
       !.theme_color = IF TruthyStr(data.theme_color)
                         THEN data.theme_color ELSE @,
       !.meta_title = IF data.meta_title # None THEN data.meta_title ELSE @,
       !.meta_description = IF data.meta_description # None
                              THEN data.meta_description ELSE @,
       !.bg_image = IF data.bg_image # None THEN data.bg_image ELSE @,
       !.manager_token = IF TruthyStr(@) THEN @
                         ELSE Some(FreshToken("mt-renewed", b.id)),
       !.analyst_token = IF TruthyStr(@) THEN @
                         ELSE Some(FreshToken("at-renewed", b.id))]

\* The assignment an owner or manager makes ahead of the slug check.
AssignAccessLevel(b, data) ==
  [b EXCEPT !.access_level = IF data.access_level # None
                               THEN Val(data.access_level) ELSE @]

\* Once the role is known: can_edit, then, for an owner or manager who asks
\* for a new slug, access_level and the slug check, or the assignments.
UpdateBundleDecide(q, role) ==
  LET b == Val(q.loaded)
  IN IF ~CanEdit(role, b)
       THEN [q EXCEPT !.pc = "done", !.out = "NotAuthorized", !.role = role]
     ELSE IF IsOwnerOrManager(role) /\ WantsSlug(q.data, q.slug)
       THEN [q EXCEPT !.pc = "check_url", !.role = role,
                      !.obj = Some(AssignAccessLevel(b, q.data))]
     ELSE [q EXCEPT !.pc = "commit", !.role = role,
                    !.obj = Some(PatchBundle(b, q.slug, q.data, role))]

\* SELECT the bundle by slug; the owner comparison.  A caller who is
\* neither owner nor global collaborator has the bundle's own collaboration
\* row looked up next.
UpdateBundleLoad(q) ==
  LET found == BundlesBySlug(q.slug)
      b == bundles[CHOOSE i \in found : TRUE]
      who == OwnerRole(q.user, b, q.eligible)
  IN IF found = {}
       THEN [q EXCEPT !.pc = "done", !.out = "NotFound"]
     ELSE IF ~who.authorized /\ q.user # None
       THEN [q EXCEPT !.pc = "select_role", !.kind = "bundle",
                      !.loaded = Some(b), !.role = who.role]
     ELSE UpdateBundleDecide([q EXCEPT !.kind = "bundle", !.loaded = Some(b)],
                             who.role)

\* First step.  For a signed-in caller: SELECT the global collaborations.
\* For an anonymous one the first SELECT is that of the bundle.
UpdateBundleStart(r, user, slug, data) ==
  /\ req[r].pc = "idle"
  /\ LET base == [IdleReq EXCEPT !.op = "update_bundle", !.user = user,
                                 !.slug = slug, !.data = data,
                                 !.pre = Snapshot]
     IN req' = [req EXCEPT ![r] =
          IF user = None
            THEN UpdateBundleLoad(base)
            ELSE [base EXCEPT !.pc = "select_bundle",
                              !.eligible = EligibleOwnerIds(user)]]
  /\ UNCHANGED << tables, seqs, tasks, now, resolved >>

UpdateBundleSelect(r) ==
  /\ req[r].op = "update_bundle" /\ req[r].pc = "select_bundle"
  /\ req' = [req EXCEPT ![r] = UpdateBundleLoad(@)]
  /\ UNCHANGED << tables, seqs, tasks, now, resolved >>

\* SELECT the role on the bundle's own collaboration row.
UpdateBundleSelectRole(r) ==
  /\ req[r].op = "update_bundle" /\ req[r].pc = "select_role"
  /\ LET col == CollabRole(SpecificCollabs(Val(req[r].user),
                                           Val(req[r].loaded).id))
     IN req' = [req EXCEPT ![r] =
          IF col.failed
            THEN [@ EXCEPT !.pc = "done", !.out = "Error"]
            ELSE UpdateBundleDecide(@, IF TruthyStr(col.role) THEN col.role
                                       ELSE req[r].role)]
  /\ UNCHANGED << tables, seqs, tasks, now, resolved >>

\* SELECT urls by the new slug.  The session first flushes a changed
\* access_level: UPDATE bundles SET access_level, which fails on a row that
\* is gone and otherwise stays uncommitted, the row locked.  A refusal rolls
\* it back.
UpdateBundleCheckUrl(r) ==
  /\ req[r].op = "update_bundle" /\ req[r].pc = "check_url"
  /\ LET old == Val(req[r].loaded)
         cols == Changed(old, Val(req[r].obj))
     IN /\ cols # {} => ~RowHeld(r, old.id)
        /\ req' = [req EXCEPT ![r] =
             IF cols # {} /\ old.id \notin DOMAIN bundles
               THEN [@ EXCEPT !.pc = "done", !.out = "Error"]
             ELSE IF UrlsBySlug(Val(req[r].data.custom_slug)) # {}
               THEN [@ EXCEPT !.pc = "done", !.out = "SlugConflict"]
             ELSE [@ EXCEPT !.pc = "check_bundle", !.flushed = cols]]
  /\ UNCHANGED << tables, seqs, tasks, now, resolved >>

\* SELECT bundles by the new slug, then the assignments to the loaded row.
UpdateBundleCheckBundle(r) ==
  /\ req[r].op = "update_bundle" /\ req[r].pc = "check_bundle"
  /\ req' = [req EXCEPT ![r] =
       IF BundlesBySlug(Val(req[r].data.custom_slug)) # {}
         THEN [@ EXCEPT !.pc = "done", !.out = "SlugConflict"]
         ELSE [@ EXCEPT !.pc = "commit",
                        !.obj = Some(PatchBundle(Val(req[r].loaded),
                                                 req[r].slug, req[r].data,
                                                 req[r].role))]]
  /\ UNCHANGED << tables, seqs, tasks, now, resolved >>

\* db.commit(): the UPDATE of the changed columns not yet flushed, if any,
\* and the end of the transaction.  The UPDATE waits for a session that
\* holds the row; a write of a unique column waits for one that shares the
\* row's key; a write of the slug is checked against the unique index on
\* bundles.slug and waits for a request that holds the slug on an
\* uncommitted row.
UpdateBundleCommit(r) ==
  /\ req[r].op = "update_bundle" /\ req[r].pc = "commit"
  /\ LET old == Val(req[r].loaded)
         new == Val(req[r].obj)
         cols == Changed(old, new)
         left == cols \ req[r].flushed
     IN /\ left # {} /\ old.id \in DOMAIN bundles => ~RowHeld(r, old.id)
        /\ left \cap KeyColumns # {} /\ old.id \in DOMAIN bundles
             => ~KeyShared(r, old.id)
        /\ "slug" \in cols /\ old.id \in DOMAIN bundles
             => new.slug \notin HeldBundleSlugs(r)
        /\ IF cols = {}
             THEN /\ bundles' = bundles
                  /\ req' = [req EXCEPT ![r].pc = "refresh"]
           ELSE IF /\ old.id \in DOMAIN bundles
                   /\ "slug" \in cols => BundleSlugFree(old.id, new.slug)
             THEN /\ bundles' = [bundles EXCEPT ![old.id] = Merge(@, old, new)]
                  /\ req' = [req EXCEPT ![r].pc = "refresh"]
             ELSE /\ bundles' = bundles
                  /\ req' = [req EXCEPT ![r].pc = "done", ![r].out = "Error"]
  /\ UNCHANGED << urls, clicks, collabs, notifs, seqs, tasks, now, resolved >>

\* db.refresh(bundle_obj): the row is read back by its id.
UpdateBundleRefresh(r) ==
  /\ req[r].op = "update_bundle" /\ req[r].pc = "refresh"
  /\ LET id == Val(req[r].loaded).id
     IN req' = [req EXCEPT ![r] =
          IF id \in DOMAIN bundles
            THEN [@ EXCEPT !.pc = "done", !.out = "Updated",
                           !.obj = Some(bundles[id])]
            ELSE [@ EXCEPT !.pc = "done", !.out = "Error"]]
  /\ UNCHANGED << tables, seqs, tasks, now, resolved >>

(***************************************************************************)
(* get_drop_details (GET /api/drop/{slug}): reads only.                    *)
(***************************************************************************)
\* The answer for a bundle once the role is known.
DetailsDecide(q, authorized, role) ==
  LET b == Val(q.loaded)
  IN IF authorized \/ b.access_level # "restricted"
       THEN [q EXCEPT !.pc = "done", !.out = "Details", !.kind = "bundle",
                      !.obj = Some(b),
                      !.role = IF TruthyStr(role) THEN role
                               ELSE Some("viewer")]
       ELSE [q EXCEPT !.pc = "done", !.out = "NotFound", !.role = None,
                      !.loaded = None]

\* SELECT the url by slug among the eligible owners.
DetailsLoadUrl(q) ==
  LET mine == { i \in UrlsBySlug(q.slug) : OwnerIn(urls[i].user_id, q.eligible) }
      u == urls[CHOOSE i \in mine : TRUE]
  IN IF mine # {}
       THEN [q EXCEPT !.pc = "done", !.out = "Details", !.kind = "url",
                      !.obj = Some(u),
                      !.role = IF u.user_id = q.user THEN Some("owner")
                               ELSE Some("manager")]
       ELSE [q EXCEPT !.pc = "select_bundle"]

\* First step.  For a signed-in caller: SELECT the global collaborations.
\* For an anonymous one the first SELECT is that of the url.
GetDropDetails(r, user, slug) ==
  /\ req[r].pc = "idle"
  /\ LET base == [IdleReq EXCEPT !.op = "get_drop_details", !.user = user,
                                 !.slug = slug, !.pre = Snapshot]
     IN req' = [req EXCEPT ![r] =
          IF user = None
            THEN DetailsLoadUrl(base)
            ELSE [base EXCEPT !.pc = "select_url",
                              !.eligible = EligibleOwnerIds(user)]]
  /\ UNCHANGED << tables, seqs, tasks, now, resolved >>

DetailsSelectUrl(r) ==
  /\ req[r].op = "get_drop_details" /\ req[r].pc = "select_url"
  /\ req' = [req EXCEPT ![r] = DetailsLoadUrl(@)]
  /\ UNCHANGED << tables, seqs, tasks, now, resolved >>

\* SELECT the bundle by slug; the owner comparison.
DetailsSelectBundle(r) ==
  /\ req[r].op = "get_drop_details" /\ req[r].pc = "select_bundle"
  /\ LET found == BundlesBySlug(req[r].slug)
         b == bundles[CHOOSE i \in found : TRUE]
         who == OwnerRole(req[r].user, b, req[r].eligible)
     IN req' = [req EXCEPT ![r] =
          IF found = {}
            THEN [@ EXCEPT !.pc = "done", !.out = "NotFound"]
          ELSE IF ~who.authorized /\ req[r].user # None
            THEN [@ EXCEPT !.pc = "select_role", !.loaded = Some(b),
                           !.role = who.role]
          ELSE DetailsDecide([@ EXCEPT !.loaded = Some(b)], who.authorized,
                             who.role)]
  /\ UNCHANGED << tables, seqs, tasks, now, resolved >>

\* SELECT the role on the bundle's own collaboration row.
DetailsSelectRole(r) ==
  /\ req[r].op = "get_drop_details" /\ req[r].pc = "select_role"
  /\ LET col == CollabRole(SpecificCollabs(Val(req[r].user),
                                           Val(req[r].loaded).id))
     IN req' = [req EXCEPT ![r] =
          IF col.failed
            THEN [@ EXCEPT !.pc = "done", !.out = "Error", !.role = None,
                           !.loaded = None]
            ELSE DetailsDecide(@, TruthyStr(col.role),
                               IF TruthyStr(col.role) THEN col.role
                               ELSE req[r].role)]
  /\ UNCHANGED << tables, seqs, tasks, now, resolved >>

(***************************************************************************)
(* invite_collaborator (POST /api/team/invite).                            *)
(***************************************************************************)
\* The users table: registered accounts, with lower-case emails.
Email(u) == "u" \o ToString(u) \o "@x.io"
DisplayName(u) == "User" \o ToString(u)
UsersByEmail(email) == {u \in Users : Email(u) = email}

\* Requests in flight that may still draw an id for a collaboration row.
PendingCollabs ==
  Cardinality({q \in Reqs : /\ req[q].op \in {"invite_collaborator",
                                              "join_bundle"}
                            /\ req[q].pc \notin {"idle", "done"}
                            /\ req[q].made = None})

\* A faulty lookup, one that would compare the wrong column.
GrantsOfOwner(owner, collaborator, bundle_id) ==
  { c \in DOMAIN collabs : /\ collabs[c].owner_id = owner
                           /\ collabs[c].collaborator_id = owner
                           /\ collabs[c].bundle_id = bundle_id }

\* select(models.Collaboration) by owner, collaborator and bundle_id.
GrantsOf(owner, collaborator, bundle_id) ==
  { c \in DOMAIN collabs : /\ collabs[c].owner_id = owner
                           /\ collabs[c].collaborator_id = collaborator
                           /\ collabs[c].bundle_id = bundle_id }

\* The title the notification names, for a bundle_id that is set.
InviteTitle(bundle_id) ==
  IF Val(bundle_id) \in DOMAIN bundles /\ bundles[Val(bundle_id)].title # ""
    THEN bundles[Val(bundle_id)].title
    ELSE "Studio"

NewNotification(inviter, invited, b_title) ==
  [ user_id |-> invited, type |-> "invitation",
    title |-> "Protocol Access Granted",
    message |-> DisplayName(inviter) \o " invited you to collaborate on '"
                  \o b_title \o "'",
    is_read |-> FALSE, link |-> Some("/dashboard?tab=team") ]

\* First step: SELECT the invited user by the lower-cased email.
InviteStart(r, user, data) ==
  /\ req[r].pc = "idle"
  /\ next_collab_id + PendingCollabs <= MaxCollabs
  /\ LET base == [IdleReq EXCEPT !.op = "invite_collaborator",
                                 !.user = user, !.data = data,
                                 !.pre = Snapshot]
         found == UsersByEmail(Lower(data.collaborator_email))
         invited == CHOOSE u \in found : TRUE
     IN req' = [req EXCEPT ![r] =
          IF user = None
            THEN [base EXCEPT !.pc = "done", !.out = "AuthRequired"]
          ELSE IF found = {}
            THEN [base EXCEPT !.pc = "done", !.out = "NotFound"]
          ELSE IF invited = Val(user)
            THEN [base EXCEPT !.pc = "done", !.out = "SelfInvite"]
          ELSE [base EXCEPT
                  !.pc = "select_grant",
                  !.obj = Some([ owner_id |-> Val(user),
                                 collaborator_id |-> invited,
                                 bundle_id |-> data.bundle_id,
                                 role |-> Some(data.role) ])]]
  /\ UNCHANGED << tables, seqs, tasks, now, resolved >>

\* SELECT an existing grant of this owner, collaborator and bundle_id.  A
\* bundle_id that is not set needs no title.
InviteSelectGrant(r) ==
  /\ req[r].op = "invite_collaborator" /\ req[r].pc = "select_grant"
  /\ LET col == Val(req[r].obj)
         existing == GrantsOf(col.owner_id, col.collaborator_id,
                              col.bundle_id)
     IN req' = [req EXCEPT ![r] =
          IF Cardinality(existing) > 1
            THEN [@ EXCEPT !.pc = "done", !.out = "Error", !.obj = None]
          ELSE IF existing # {}
            THEN [@ EXCEPT !.pc = "done", !.out = "DuplicateGrant",
                           !.obj = None]
          ELSE IF TruthyInt(col.bundle_id)
            THEN [@ EXCEPT !.pc = "select_title"]
          ELSE [@ EXCEPT !.pc = "commit",
                         !.loaded = Some(NewNotification(col.owner_id,
                                           col.collaborator_id, "Global"))]]
  /\ UNCHANGED << tables, seqs, tasks, now, resolved >>

\* SELECT the bundle's title for the notification.  The session first
\* flushes the collaboration added before: the INSERT draws the row's id,
\* fails when the foreign key on bundle_id finds no bundle, and otherwise
\* leaves the row uncommitted.
InviteSelectTitle(r) ==
  /\ req[r].op = "invite_collaborator" /\ req[r].pc = "select_title"
  /\ LET col == Val(req[r].obj)
         cid == next_collab_id
     IN /\ next_collab_id' = cid + 1
        /\ req' = [req EXCEPT ![r] =
             IF Val(col.bundle_id) \in DOMAIN bundles
               THEN [@ EXCEPT !.pc = "commit", !.made = Some(cid),
                              !.loaded =
                                 Some(NewNotification(col.owner_id,
                                        col.collaborator_id,
                                        InviteTitle(col.bundle_id)))]
               ELSE [@ EXCEPT !.pc = "done", !.out = "Error"]]
  /\ UNCHANGED << tables, next_url_id, next_bundle_id, next_click_id,
                  next_notif_id, tasks, now, resolved >>

\* db.commit().  After the title SELECT the collaboration is in the
\* transaction already: the notification is inserted and both rows become
\* visible.  Otherwise both rows are inserted here, in an order the handler
\* does not fix: a bundle_id that is set and names no bundle (0, which the
\* handler takes for none) fails the collaboration, with the notification's
\* id drawn before it or not at all.
InviteCommit(r) ==
  /\ req[r].op = "invite_collaborator" /\ req[r].pc = "commit"
  /\ LET col == Val(req[r].obj)
         drawn == req[r].made # None
         cid == IF drawn THEN Val(req[r].made) ELSE next_collab_id
         nid == next_notif_id
     IN /\ next_collab_id' = IF drawn THEN next_collab_id ELSE cid + 1
        /\ IF drawn \/ col.bundle_id = None
                    \/ Val(col.bundle_id) \in DOMAIN bundles
             THEN /\ collabs' = Put(collabs, cid, [id |-> cid] @@ col)
                  /\ notifs' = Put(notifs, nid,
                                   [id |-> nid] @@ Val(req[r].loaded))
                  /\ next_notif_id' = nid + 1
                  /\ req' = [req EXCEPT ![r].pc = "done",
                                        ![r].out = "Invited",
                                        ![r].made = Some(cid)]
             ELSE /\ UNCHANGED << collabs, notifs >>
                  /\ next_notif_id' \in {nid, nid + 1}
                  /\ req' = [req EXCEPT ![r].pc = "done", ![r].out = "Error"]
  /\ UNCHANGED << urls, bundles, clicks, next_url_id, next_bundle_id,
                  next_click_id, tasks, now, resolved >>

(***************************************************************************)
(* mark_notification_read (POST /api/notifications/{n_id}/read).           *)
(***************************************************************************)
\* select(models.Notification) by id and addressee.
NotificationsOf(n_id, uid) ==
  { n \in DOMAIN notifs : n = n_id /\ notifs[n].user_id = uid }

\* First step: SELECT the caller's notification.  The handler reads user.id
\* without testing user: an anonymous request fails there.  A notification
\* that is not the caller's is left alone, and the answer is the same.
MarkReadStart(r, user, n_id) ==
  /\ req[r].pc = "idle"
  /\ LET base == [IdleReq EXCEPT !.op = "mark_notification_read",
                                 !.user = user, !.data = [n_id |-> n_id],
                                 !.pre = Snapshot]
     IN req' = [req EXCEPT ![r] =
          IF user = None
            THEN [base EXCEPT !.pc = "done", !.out = "Error"]
          ELSE IF NotificationsOf(n_id, Val(user)) = {}
            THEN [base EXCEPT !.pc = "done", !.out = "Updated"]
          ELSE [base EXCEPT !.pc = "commit", !.loaded = Some(notifs[n_id]),
                            !.obj = Some([notifs[n_id] EXCEPT
                                            !.is_read = TRUE])]]
  /\ UNCHANGED << tables, seqs, tasks, now, resolved >>

\* notif.is_read = True; db.commit(): the UPDATE, if the flag has changed.
MarkReadCommit(r) ==
  /\ req[r].op = "mark_notification_read" /\ req[r].pc = "commit"
  /\ LET old == Val(req[r].loaded)
         new == Val(req[r].obj)
     IN notifs' = IF Changed(old, new) = {} THEN notifs
                  ELSE [notifs EXCEPT ![old.id] = Merge(@, old, new)]
  /\ req' = [req EXCEPT ![r].pc = "done", ![r].out = "Updated"]
  /\ UNCHANGED << urls, bundles, clicks, collabs, seqs, tasks, now,
                  resolved >>

(***************************************************************************)
(* remove_collaborator (DELETE /api/team/{col_id}).                        *)
(***************************************************************************)
\* Only owner or collaborator can remove.
MayRemove(col, uid) == col.owner_id = uid \/ col.collaborator_id = uid

\* First step: SELECT the collaboration by id; the caller must be its owner
\* or its collaborator.
RemoveStart(r, user, col_id) ==
  /\ req[r].pc = "idle"
  /\ LET base == [IdleReq EXCEPT !.op = "remove_collaborator",
                                 !.user = user, !.data = [col_id |-> col_id],
                                 !.pre = Snapshot]
     IN req' = [req EXCEPT ![r] =
          IF user = None
            THEN [base EXCEPT !.pc = "done", !.out = "AuthRequired"]
          ELSE IF col_id \notin DOMAIN collabs
            THEN [base EXCEPT !.pc = "done", !.out = "NotFound"]
          ELSE IF ~MayRemove(collabs[col_id], Val(user))
            THEN [base EXCEPT !.pc = "done", !.out = "NotAuthorized"]
          ELSE [base EXCEPT !.pc = "commit",
                            !.loaded = Some(collabs[col_id])]]
  /\ UNCHANGED << tables, seqs, tasks, now, resolved >>

\* db.delete(col), which has nothing to load, and db.commit(): the DELETE.
\* A row that another request has deleted since matches nothing, which the
\* session reports as a warning only.
RemoveCommit(r) ==
  /\ req[r].op = "remove_collaborator" /\ req[r].pc = "commit"
  /\ collabs' = Drop(collabs, Val(req[r].loaded).id)
  /\ req' = [req EXCEPT ![r].pc = "done", ![r].out = "Removed"]
  /\ UNCHANGED << urls, bundles, clicks, notifs, seqs, tasks, now,
                  resolved >>

(***************************************************************************)
(* join_bundle (POST /api/bundle/join/{slug}?token=...).                   *)
(***************************************************************************)
\* A faulty comparison, one that would accept the token of any bundle.
TokenRoleAnyBundle(b, token) ==
  IF \E i \in DOMAIN bundles : Some(token) = bundles[i].manager_token
    THEN Some("manager")
  ELSE IF \E i \in DOMAIN bundles : Some(token) = bundles[i].analyst_token
    THEN Some("analyst")
  ELSE None

\* final_role for a presented token.
TokenRole(b, token) ==
  IF Some(token) = b.manager_token THEN Some("manager")
  ELSE IF Some(token) = b.analyst_token THEN Some("analyst")
  ELSE None

\* First step: SELECT the bundle by slug; the token comparison.
JoinStart(r, user, slug, token) ==
  /\ req[r].pc = "idle"
  /\ next_collab_id + PendingCollabs <= MaxCollabs
  /\ LET base == [IdleReq EXCEPT !.op = "join_bundle", !.user = user,
                                 !.slug = slug, !.data = [token |-> token],
                                 !.pre = Snapshot]
         found == BundlesBySlug(slug)
         b == bundles[CHOOSE i \in found : TRUE]
         final_role == TokenRole(b, token)
     IN req' = [req EXCEPT ![r] =
          IF user = None
            THEN [base EXCEPT !.pc = "done", !.out = "AuthRequired"]
          ELSE IF found = {}
            THEN [base EXCEPT !.pc = "done", !.out = "NotFound"]
          ELSE IF final_role = None
            THEN [base EXCEPT !.pc = "done", !.out = "InvalidToken",
                              !.kind = "bundle", !.loaded = Some(b)]
          ELSE [base EXCEPT !.pc = "select_grant", !.kind = "bundle",
                            !.loaded = Some(b)]]
  /\ UNCHANGED << tables, seqs, tasks, now, resolved >>

\* SELECT an existing membership of the caller in the bundle.
JoinSelectGrant(r) ==
  /\ req[r].op = "join_bundle" /\ req[r].pc = "select_grant"
  /\ LET b == Val(req[r].loaded)
         existing == SpecificCollabs(Val(req[r].user), b.id)
         final_role == TokenRole(b, req[r].data.token)
     IN req' = [req EXCEPT ![r] =
          IF Cardinality(existing) > 1
            THEN [@ EXCEPT !.pc = "done", !.out = "Error"]
          ELSE IF existing # {}
            THEN [@ EXCEPT !.pc = "done", !.out = "AlreadyJoined"]
          ELSE [@ EXCEPT
                  !.pc = "commit", !.role = final_role,
                  !.obj = Some([ owner_id |-> b.user_id,
                                 collaborator_id |-> Val(req[r].user),
                                 bundle_id |-> Some(b.id),
                                 role |-> final_role ])]]
  /\ UNCHANGED << tables, seqs, tasks, now, resolved >>

\* db.commit(): the INSERT draws the row's id; owner_id is NOT NULL, and
\* bundle_id references bundles.
JoinCommit(r) ==
  /\ req[r].op = "join_bundle" /\ req[r].pc = "commit"
  /\ next_collab_id' = next_collab_id + 1
  /\ LET col == Val(req[r].obj)
         cid == next_collab_id
     IN IF col.owner_id # None /\ Val(col.bundle_id) \in DOMAIN bundles
          THEN /\ collabs' = Put(collabs, cid,
                                 [id |-> cid] @@
                                 [col EXCEPT !.owner_id = Val(@)])
               /\ req' = [req EXCEPT ![r].pc = "done", ![r].out = "Joined",
                                     ![r].made = Some(cid)]
          ELSE /\ collabs' = collabs
               /\ req' = [req EXCEPT ![r].pc = "done", ![r].out = "Error",
                                     ![r].role = None]
  /\ UNCHANGED << urls, bundles, clicks, notifs, next_url_id, next_bundle_id,
                  next_click_id, next_notif_id, tasks, now, resolved >>

(***************************************************************************)
(* unlock_url (POST /unlock/{slug}).                                       *)
(***************************************************************************)
\* A string as json.loads makes it of the body: runs of characters, and
\* between them the surrogate code points that stand on their own (JSON
\* escapes \ud800 .. \udfff without a partner), each kept as one code
\* point of the string.
Run(s) == [run |-> s, surrogate |-> None]
Surrogate(cp) == [run |-> "", surrogate |-> Some(cp)]

\* The surrogate code points, U+D800 .. U+DFFF.
FirstSurrogate == 55296
LastSurrogate == 57343

\* The body is any JSON object (data: dict): the value under a key is a
\* string, given by its parts, or, standing for every value that is not
\* one, null.
JsonString(parts) == [type |-> "string", text |-> parts]
JsonNull == [type |-> "null", text |-> << >>]

\* str.encode(): UTF-8 encodes every string but one that holds a
\* surrogate, for which it raises UnicodeEncodeError.
Utf8Encodable(parts) == \A i \in DOMAIN parts : parts[i].surrogate = None

\* The characters of a string that holds no surrogate.
RECURSIVE Text(_)
Text(parts) ==
  IF parts = << >> THEN "" ELSE Head(parts).run \o Text(Tail(parts))

\* data.get("password", ""): the submitted value, "" when the key is
\* missing.
Attempt(data) ==
  IF data.password = None THEN JsonString(<< >>) ELSE Val(data.password)

\* .encode() exists on strings only, and it raises on a string UTF-8
\* cannot encode; on any other value the call raises AttributeError.
CanEncode(value) == value.type = "string" /\ Utf8Encodable(value.text)

\* The comparison of the attempt's hash with the stored column.
PasswordMatches(attempt, stored) == Some(Sha256(attempt)) = stored

\* The answer for a drop that was found, with its true target.
UnlockDecide(q, kind, stored, target) ==
  LET attempt == Attempt(q.data)
  IN IF ~CanEncode(attempt)
       THEN [q EXCEPT !.pc = "done", !.out = "Error"]
     ELSE IF ~PasswordMatches(Text(attempt.text), stored)
       THEN [q EXCEPT !.pc = "done", !.out = "IncorrectCredential"]
     ELSE [q EXCEPT !.pc = "done", !.out = "Unlocked", !.kind = kind,
                    !.target = target]

\* First step: SELECT the bundle by slug.  The handler reads and writes
\* nothing.
UnlockUrl(r, slug, data) ==
  /\ req[r].pc = "idle"
  /\ LET base == [IdleReq EXCEPT !.op = "unlock_url", !.slug = slug,
                                 !.data = data, !.pre = Snapshot]
         bs == BundlesBySlug(slug)
         b == bundles[CHOOSE i \in bs : TRUE]
     IN req' = [req EXCEPT ![r] =
          IF bs = {}
            THEN [base EXCEPT !.pc = "select_url"]
            ELSE UnlockDecide(base, "bundle", b.password,
                              FRONTEND_URL \o "/bundle/" \o slug)]
  /\ UNCHANGED << tables, seqs, tasks, now, resolved >>

\* No bundle has the slug: SELECT the url by slug.
UnlockSelectUrl(r) ==
  /\ req[r].op = "unlock_url" /\ req[r].pc = "select_url"
  /\ LET us == UrlsBySlug(req[r].slug)
         u == urls[CHOOSE i \in us : TRUE]
     IN req' = [req EXCEPT ![r] =
          IF us = {}
            THEN [@ EXCEPT !.pc = "done", !.out = "NotFound"]
            ELSE UnlockDecide(@, "url", u.password, u.long_url)]
  /\ UNCHANGED << tables, seqs, tasks, now, resolved >>

(***************************************************************************)
(* delete_drop (DELETE /api/drops/{slug}).                                 *)
(***************************************************************************)
\* A faulty cascade, one that would load no click rows.
ClicksOfNothing(kind, id) == {}

\* The click rows of a drop (its `analytics` relationship).
ClicksOf(kind, id) ==
  { c \in DOMAIN clicks :
      IF kind = "url" THEN clicks[c].url_id = Some(id)
      ELSE clicks[c].bundle_id = Some(id) }

\* First step: SELECT the caller's global collaborations.
DeleteStart(r, user, slug) ==
  /\ req[r].pc = "idle"
  /\ LET base == [IdleReq EXCEPT !.op = "delete_drop", !.user = user,
                                 !.slug = slug, !.pre = Snapshot]
     IN req' = [req EXCEPT ![r] =
          IF user = None
            THEN [base EXCEPT !.pc = "done", !.out = "AuthRequired"]
            ELSE [base EXCEPT !.pc = "select_url",
                              !.eligible = EligibleOwnerIds(user)]]
  /\ UNCHANGED << tables, seqs, tasks, now, resolved >>

\* SELECT the url by slug among the eligible owners.
DeleteSelectUrl(r) ==
  /\ req[r].op = "delete_drop" /\ req[r].pc = "select_url"
  /\ LET us == { i \in UrlsBySlug(req[r].slug) :
                   OwnerIn(urls[i].user_id, req[r].eligible) }
     IN req' = [req EXCEPT ![r] =
          IF us # {}
            THEN [@ EXCEPT !.pc = "delete", !.kind = "url",
                           !.loaded = Some(urls[CHOOSE i \in us : TRUE])]
            ELSE [@ EXCEPT !.pc = "select_bundle"]]
  /\ UNCHANGED << tables, seqs, tasks, now, resolved >>

\* No url to delete: SELECT the bundle by slug among the eligible owners.
DeleteSelectBundle(r) ==
  /\ req[r].op = "delete_drop" /\ req[r].pc = "select_bundle"
  /\ LET bs == { i \in BundlesBySlug(req[r].slug) :
                   OwnerIn(bundles[i].user_id, req[r].eligible) }
     IN req' = [req EXCEPT ![r] =
          IF bs # {}
            THEN [@ EXCEPT !.pc = "delete", !.kind = "bundle",
                           !.loaded = Some(bundles[CHOOSE i \in bs : TRUE])]
            ELSE [@ EXCEPT !.pc = "done", !.out = "NotFound"]]
  /\ UNCHANGED << tables, seqs, tasks, now, resolved >>

\* db.delete(obj): the session loads the drop's click rows for the delete
\* cascade.
DeleteLoad(r) ==
  /\ req[r].op = "delete_drop" /\ req[r].pc = "delete"
  /\ req' = [req EXCEPT ![r].pc = "commit",
                        ![r].cascade = ClicksOf(req[r].kind,
                                                Val(req[r].loaded).id)]
  /\ UNCHANGED << tables, seqs, tasks, now, resolved >>

\* commit: DELETE the loaded clicks, then the drop.  The foreign keys of
\* clicks and collaborations reject the delete while a row the session did
\* not load still references the drop.  The DELETE of a bundle waits for a
\* session that holds the row or shares its key.
DeleteCommit(r) ==
  /\ req[r].op = "delete_drop" /\ req[r].pc = "commit"
  /\ req[r].kind = "bundle" =>
       /\ ~RowHeld(r, Val(req[r].loaded).id)
       /\ ~KeyShared(r, Val(req[r].loaded).id)
  /\ LET kind == req[r].kind
         id == Val(req[r].loaded).id
         left == ClicksOf(kind, id) \ req[r].cascade
         held == kind = "bundle" /\
                 \E c \in DOMAIN collabs : collabs[c].bundle_id = Some(id)
     IN IF left # {} \/ held
          THEN /\ req' = [req EXCEPT ![r].pc = "done", ![r].out = "Error"]
               /\ UNCHANGED << urls, bundles, clicks >>
          ELSE /\ req' = [req EXCEPT ![r].pc = "done", ![r].out = "Purged"]
               /\ clicks' = [c \in DOMAIN clicks \ req[r].cascade |->
                               clicks[c]]
               /\ urls' = IF kind = "url" THEN Drop(urls, id) ELSE urls
               /\ bundles' = IF kind = "bundle" THEN Drop(bundles, id)
                             ELSE bundles
  /\ UNCHANGED << collabs, notifs, seqs, tasks, now, resolved >>

(***************************************************************************)
(* redirect_url (GET /{slug}) and the click-record write.                  *)
(***************************************************************************)
\* The route guard on admin and front-end paths.
IsReserved(slug) ==
  StartsWith(Lower(slug), "admin") \/ Lower(slug) \in ReservedSlugs

\* is_bot, from the User-Agent header.
IsBot(ua) == \E sig \in BotSignatures : Contains(Lower(ua), sig)

\* The expiry and cap test, the same expression for both variants.
IsExpired(d) ==
  \/ d.expires_at # None /\ Val(d.expires_at) < now
  \/ TruthyInt(d.max_clicks) /\ d.clicks >= Val(d.max_clicks)

HasMeta(d) == TruthyStr(d.meta_title) \/ TruthyStr(d.meta_description)

\* A response: the outcome, how a Resolve is rendered, where the client is
\* sent, whether the Referrer-Policy: no-referrer header is set, and whether
\* the handler still has to commit the click (clicks += 1, add_task).
Response(out, render, target, noref, commit) ==
  [ out |-> out, render |-> render, target |-> target, noref |-> noref,
    commit |-> commit, body |-> "" ]

\* The page a bot is shown in place of a cloaked drop.
CloakHtml(title, desc) ==
  "<html><head><title>" \o title
    \o "</title><meta name='description' content='" \o desc
    \o "'></head><body>" \o title \o "</body></html>"

CloakResponse(html) ==
  [Response("CloakPage", "", "", FALSE, FALSE) EXCEPT !.body = html]

\* A faulty page for a single link, one that would name the destination.
UrlCloakPageLeaky(u) ==
  CloakHtml(Val(OrStr(u.meta_title, Some(u.long_url))),
            Val(OrStr(u.meta_description, Some("Secure Studio Drop"))))

\* title and desc as redirect_url picks them (the default titles begin with
\* the Ethiopic letters u1240 u120b u120d).
UrlCloakPage(u) ==
  CloakHtml(Val(OrStr(u.meta_title, Some("u1240u120bu120d Link"))),
            Val(OrStr(u.meta_description, Some("Secure Studio Drop"))))

BundleCloakPage(b) ==
  CloakHtml(Val(OrStr(b.meta_title,
                      OrStr(Some(b.title),
                            Some("u1240u120bu120d Link - Studio")))),
            Val(OrStr(b.meta_description,
                      OrStr(b.description,
                            Some("Professional Identity Studio")))))

\* What redirect_url does with a bundle it found.
BundleResponse(b, slug, is_bot) ==
  IF IsExpired(b)
    THEN Response("Expired", "", FRONTEND_URL \o "/expired", FALSE, FALSE)
  ELSE IF TruthyBool(b.is_cloaked) /\ is_bot
    THEN CloakResponse(BundleCloakPage(b))
  ELSE IF TruthyStr(b.password)
    THEN Response("UnlockRequired", "", FRONTEND_URL \o "/unlock/" \o slug,
                  FALSE, FALSE)
  ELSE IF HasMeta(b)
    THEN Response("Resolve", "MetaPreview", FRONTEND_URL \o "/bundle/" \o slug,
                  FALSE, TRUE)
  ELSE Response("Resolve", "PlainRedirect",
                FRONTEND_URL \o "/bundle/" \o slug,
                TruthyBool(b.is_cloaked), TRUE)

\* A faulty decision for a single link, one that would skip the password
\* rule.
UrlResponseNoUnlock(u, slug, is_bot) ==
  IF IsExpired(u)
    THEN Response("Expired", "", FRONTEND_URL \o "/expired", FALSE, FALSE)
  ELSE IF TruthyBool(u.is_cloaked) /\ is_bot
    THEN CloakResponse(UrlCloakPage(u))
  ELSE IF HasMeta(u)
    THEN Response("Resolve", "MetaPreview", u.long_url, FALSE, TRUE)
  ELSE Response("Resolve", "PlainRedirect", u.long_url,
                TruthyBool(u.is_cloaked), TRUE)

\* What redirect_url does with a single link it found.
UrlResponse(u, slug, is_bot) ==
  IF IsExpired(u)
    THEN Response("Expired", "", FRONTEND_URL \o "/expired", FALSE, FALSE)
  ELSE IF TruthyBool(u.is_cloaked) /\ is_bot
    THEN CloakResponse(UrlCloakPage(u))
  ELSE IF TruthyStr(u.password)
    THEN Response("UnlockRequired", "", FRONTEND_URL \o "/unlock/" \o slug,
                  FALSE, FALSE)
  ELSE IF HasMeta(u)
    THEN Response("Resolve", "MetaPreview", u.long_url, FALSE, TRUE)
  ELSE Response("Resolve", "PlainRedirect", u.long_url,
                TruthyBool(u.is_cloaked), TRUE)

\* The request slot after the handler has looked at the row it found.
Decided(q, kind, row, resp) ==
  [q EXCEPT !.kind = kind, !.obj = Some(row),
            !.pc = IF resp.commit THEN "commit" ELSE "done",
            !.out = IF resp.commit THEN "" ELSE resp.out,
            !.render = resp.render, !.target = resp.target,
            !.noref = resp.noref, !.body = resp.body]

\* Redirects that may still resolve, and those that have.
ClicksUsed ==
  (next_click_id - 1) + BagCardinality(tasks)
  + Cardinality({q \in Reqs : req[q].op = "redirect_url"})

\* First step: the route guard, then SELECT ... FROM bundles WHERE slug.
RedirectStart(r, slug, ua, referer) ==
  /\ req[r].pc = "idle"
  /\ ClicksUsed < MaxClicks
  /\ LET base == [IdleReq EXCEPT !.op = "redirect_url", !.slug = slug,
                                 !.ua = ua, !.data = [referer |-> referer],
                                 !.pre = Snapshot]
         found == BundlesBySlug(slug)
     IN req' = [req EXCEPT ![r] =
          IF IsReserved(slug)
            THEN [base EXCEPT !.pc = "done", !.out = "NotFound"]
          ELSE IF found # {}
            THEN LET b == bundles[CHOOSE i \in found : TRUE]
                 IN Decided(base, "bundle", b,
                            BundleResponse(b, slug, IsBot(ua)))
          ELSE [base EXCEPT !.pc = "select_url"]]
  /\ UNCHANGED << tables, seqs, tasks, now, resolved >>

\* No bundle has the slug: SELECT ... FROM urls WHERE slug.
RedirectSelectUrl(r) ==
  /\ req[r].op = "redirect_url" /\ req[r].pc = "select_url"
  /\ LET found == UrlsBySlug(req[r].slug)
     IN req' = [req EXCEPT ![r] =
          IF found = {}
            THEN [@ EXCEPT !.pc = "done", !.out = "NotFound"]
            ELSE LET u == urls[CHOOSE i \in found : TRUE]
                 IN Decided(@, "url", u,
                            UrlResponse(u, req[r].slug, IsBot(req[r].ua)))]
  /\ UNCHANGED << tables, seqs, tasks, now, resolved >>

\* A faulty increment, one that would count a request twice.
ClicksWrittenTwice(loaded, stored) == loaded + 2

\* The value the handler's commit writes to the clicks column: the session
\* incremented the value it loaded, and its UPDATE carries the result.
ClicksWritten(loaded, stored) == loaded + 1

\* clicks += 1, add_task(track_click, ...), commit: UPDATE ... SET clicks.
\* A row deleted since it was loaded fails the flush, and the request; the
\* UPDATE of a bundle waits for a session that holds the row.
RedirectCommit(r) ==
  /\ req[r].op = "redirect_url" /\ req[r].pc = "commit"
  /\ req[r].kind = "bundle" => ~RowHeld(r, Val(req[r].obj).id)
  /\ LET row == Val(req[r].obj)
         key == << req[r].kind, row.id >>
         table == IF req[r].kind = "bundle" THEN bundles ELSE urls
         task == [ kind |-> req[r].kind, id |-> row.id, ua |-> req[r].ua,
                   referer |-> req[r].data.referer ]
     IN IF row.id \in DOMAIN table
          THEN /\ IF req[r].kind = "bundle"
                    THEN /\ bundles' = [bundles EXCEPT ![row.id].clicks =
                               ClicksWritten(row.clicks, @)]
                         /\ urls' = urls
                    ELSE /\ urls' = [urls EXCEPT ![row.id].clicks =
                               ClicksWritten(row.clicks, @)]
                         /\ bundles' = bundles
               /\ req' = [req EXCEPT ![r].pc = "done", ![r].out = "Resolve",
                                     ![r].task = Some(task)]
               /\ resolved' = Put(resolved, key,
                    IF key \in DOMAIN resolved THEN resolved[key] + 1 ELSE 1)
          ELSE /\ req' = [req EXCEPT ![r].pc = "done", ![r].out = "Error",
                                     ![r].render = "", ![r].target = "",
                                     ![r].noref = FALSE]
               /\ UNCHANGED << urls, bundles, resolved >>
  /\ UNCHANGED << clicks, collabs, notifs, seqs, tasks, now >>

\* The response leaves; the background task it carries is started after it.
Respond(r) ==
  /\ req[r].pc = "done"
  /\ req' = [req EXCEPT ![r] = IdleReq]
  /\ tasks' = IF req[r].task = None THEN tasks
              ELSE tasks (+) SetToBag({Val(req[r].task)})
  /\ UNCHANGED << tables, seqs, now, resolved >>

\* track_click: the device class of a (lower-cased) user-agent.
DeviceType(ua) ==
  IF Contains(ua, "mobile") THEN "Mobile"
  ELSE IF Contains(ua, "tablet") \/ Contains(ua, "ipad") THEN "Tablet"
  ELSE "Desktop"

\* A faulty write, one that would count the click on the drop itself.
TrackClickCounting(t) ==
  /\ BagIn(t, tasks)
  /\ tasks' = tasks (-) SetToBag({t})
  /\ next_click_id' = next_click_id + 1
  /\ urls' = [i \in DOMAIN urls |->
               IF t.kind = "url" /\ i = t.id
                 THEN [urls[i] EXCEPT !.clicks = @ + 1] ELSE urls[i]]
  /\ bundles' = [i \in DOMAIN bundles |->
                  IF t.kind = "bundle" /\ i = t.id
                    THEN [bundles[i] EXCEPT !.clicks = @ + 1] ELSE bundles[i]]
  /\ UNCHANGED << clicks, collabs, notifs, next_url_id, next_bundle_id,
                  next_collab_id, next_notif_id, req,
                  now, resolved >>

\* track_click in a session of its own: INSERT INTO clicks, commit.  The
\* foreign keys on url_id and bundle_id reject a click on a deleted drop.
TrackClick(t) ==
  /\ BagIn(t, tasks)
  /\ tasks' = tasks (-) SetToBag({t})
  /\ next_click_id' = next_click_id + 1
  /\ LET click == [ id |-> next_click_id,
                    url_id |-> IF t.kind = "url" THEN Some(t.id) ELSE None,
                    bundle_id |-> IF t.kind = "bundle" THEN Some(t.id)
                                  ELSE None,
                    timestamp |-> now, referer |-> t.referer,
                    user_agent |-> Lower(t.ua),
                    device_type |-> Some(DeviceType(Lower(t.ua))) ]
         table == IF t.kind = "bundle" THEN bundles ELSE urls
     IN clicks' = IF t.id \in DOMAIN table
                    THEN Put(clicks, next_click_id, click)
                    ELSE clicks
  /\ UNCHANGED << urls, bundles, collabs, notifs, next_url_id, next_bundle_id,
                  next_collab_id, next_notif_id, req,
                  now, resolved >>

\* Time passes.
Tick ==
  /\ now < MaxNow
  /\ now' = now + 1
  /\ UNCHANGED << tables, seqs, req, tasks, resolved >>

(***************************************************************************)
(* get_stats (GET /api/stats/{slug}).                                      *)
(***************************************************************************)
\* .limit(5) of the referrer query.
TopReferers == 5

\* WHERE Click.bundle_id == obj.id / Click.url_id == obj.id.
StatRows(kind, id) == ClicksOf(kind, id)

\* SELECT col, count(id) ... GROUP BY col: one row per value of the
\* column, NULL and "" being two values.
GroupCount(rows, col) ==
  { [key |-> k, count |-> Cardinality({c \in rows : clicks[c][col] = k})] :
      k \in {clicks[c][col] : c \in rows} }

\* date_trunc('hour', timestamp): the start of the hour the time lies in;
\* times are counted in seconds.
SecondsPerHour == 3600
DateTruncHour(t) == t - (t % SecondsPerHour)

\* SELECT date_trunc('hour', timestamp), count(id) ... GROUP BY it: one
\* row per hour that has a click.
HourCount(rows) ==
  { [key |-> h,
     count |-> Cardinality({c \in rows :
                              DateTruncHour(clicks[c].timestamp) = h})] :
      h \in {DateTruncHour(clicks[c].timestamp) : c \in rows} }

\* The lists of n of the rows, each row at most once.
Listings(rows, n) ==
  { l \in [1..n -> rows] : \A i, j \in 1..n : l[i] = l[j] => i = j }

\* A query without ORDER BY: the store returns the rows in the order it
\* comes across them; every order is possible.
AnyOrder(rows) == Listings(rows, Cardinality(rows))

\* ORDER BY the group key, ascending.
OrderedByKey(rows) ==
  CHOOSE l \in AnyOrder(rows) :
    \A i, j \in DOMAIN l : i < j => l[i].key < l[j].key

\* LIMIT n on a query without ORDER BY: the store returns n of the rows,
\* whichever it comes across first; every choice is possible.
Limit(rows, n) ==
  Listings(rows, IF Cardinality(rows) < n THEN Cardinality(rows) ELSE n)

\* The report for a drop, from the rows the three queries returned: each
\* list has one entry per row, in the order of the rows.
StatsReport(kind, obj, hours, devices, referer_rows) ==
  [ title |-> IF kind = "bundle" THEN obj.title ELSE obj.slug,
    total_clicks |-> obj.clicks,
    clicks_history |->
      [ i \in DOMAIN hours |->
          [date |-> hours[i].key, count |-> hours[i].count] ],
    device_stats |->
      [ i \in DOMAIN devices |->
          [device |-> Val(OrStr(devices[i].key, Some("Unknown"))),
           count |-> devices[i].count] ],
    top_referers |->
      [ i \in DOMAIN referer_rows |->
          [referer |-> Val(OrStr(referer_rows[i].key, Some("Direct"))),
           count |-> referer_rows[i].count] ] ]

\* First step: SELECT the bundle by slug.  The handler reads and writes
\* nothing.
GetStats(r, user, slug) ==
  /\ req[r].pc = "idle"
  /\ LET base == [IdleReq EXCEPT !.op = "get_stats", !.user = user,
                                 !.slug = slug, !.pre = Snapshot]
         bs == BundlesBySlug(slug)
     IN req' = [req EXCEPT ![r] =
          IF bs # {}
            THEN [base EXCEPT !.pc = "history", !.kind = "bundle",
                              !.loaded = Some(bundles[CHOOSE i \in bs : TRUE])]
            ELSE [base EXCEPT !.pc = "select_url"]]
  /\ UNCHANGED << tables, seqs, tasks, now, resolved >>

\* No bundle has the slug: SELECT the url by slug.
StatsSelectUrl(r) ==
  /\ req[r].op = "get_stats" /\ req[r].pc = "select_url"
  /\ LET us == UrlsBySlug(req[r].slug)
     IN req' = [req EXCEPT ![r] =
          IF us = {}
            THEN [@ EXCEPT !.pc = "done", !.out = "NotFound"]
            ELSE [@ EXCEPT !.pc = "history", !.kind = "url",
                           !.loaded = Some(urls[CHOOSE i \in us : TRUE])]]
  /\ UNCHANGED << tables, seqs, tasks, now, resolved >>

\* The clicks of the drop, counted per hour, in the order of the hours.
StatsHistory(r) ==
  /\ req[r].op = "get_stats" /\ req[r].pc = "history"
  /\ LET groups == HourCount(StatRows(req[r].kind, Val(req[r].loaded).id))
     IN req' = [req EXCEPT ![r].pc = "devices",
                           ![r].rows = "hours" :> OrderedByKey(groups)]
  /\ UNCHANGED << tables, seqs, tasks, now, resolved >>

\* The clicks of the drop, counted per device type, in any order.
StatsDevices(r) ==
  /\ req[r].op = "get_stats" /\ req[r].pc = "devices"
  /\ \E devices \in
         AnyOrder(GroupCount(StatRows(req[r].kind, Val(req[r].loaded).id),
                             "device_type")) :
       req' = [req EXCEPT ![r].pc = "referers",
                          ![r].rows = @ @@ "devices" :> devices]
  /\ UNCHANGED << tables, seqs, tasks, now, resolved >>

\* The clicks of the drop, counted per referrer, LIMIT 5; the response.
StatsReferers(r) ==
  /\ req[r].op = "get_stats" /\ req[r].pc = "referers"
  /\ \E referer_rows \in
         Limit(GroupCount(StatRows(req[r].kind, Val(req[r].loaded).id),
                          "referer"), TopReferers) :
       req' = [req EXCEPT ![r].pc = "done", ![r].out = "Report",
                          ![r].obj = Some(StatsReport(req[r].kind,
                                            Val(req[r].loaded),
                                            req[r].rows["hours"],
                                            req[r].rows["devices"],
                                            referer_rows))]
  /\ UNCHANGED << tables, seqs, tasks, now, resolved >>

(***************************************************************************)
(* Inputs.                                                                 *)
(***************************************************************************)
OptCaps == {None} \cup {Some(n) : n \in 0..MaxCap}
UserAgents == {"curl", "XBot"}

\* Bodies of POST /shorten (schemas.URLCreate).
URLCreate(custom_slug, max_clicks, expires_in, expires_at, password, meta_title, is_cloaked) ==
  [ long_url |-> "https://t.example/a", custom_slug |-> custom_slug,
    max_clicks |-> max_clicks, expires_in |-> expires_in,
    expires_at |-> expires_at, password |-> password,
    meta_title |-> meta_title, meta_description |-> None,
    is_cloaked |-> is_cloaked ]

\* Bodies of POST /bundle (schemas.BundleCreate).
BundleCreate(custom_slug, max_clicks, expires_in, expires_at, password, meta_title, is_cloaked) ==
  [ title |-> "Studio", description |-> None,
    items |-> << [label |-> "one", url |-> "https://t.example/1",
                  is_spotlight |-> FALSE] >>,
    theme_color |-> Some("#00f2ff"), bg_image |-> None,
    custom_slug |-> custom_slug, max_clicks |-> max_clicks,
    expires_in |-> expires_in, expires_at |-> expires_at,
    password |-> password, meta_title |-> meta_title,
    meta_description |-> None, is_cloaked |-> is_cloaked,
    access_level |-> Some("restricted") ]

(***************************************************************************)
(* SpecRedirect: one request at a time, each handled at one instant of the *)
(* clock.  An anonymous caller publishes one drop, of either variant, with *)
(* any combination of slug, cap, expiry, password, meta title and cloak    *)
(* flag; visitors follow the slugs.                                        *)
(***************************************************************************)
RedirectSlugs == {"go", "Admin"}

NoDrops == DOMAIN urls = {} /\ DOMAIN bundles = {}

\* expires_at given, or left to expires_in.
Expiries ==
  { [at |-> None, in |-> None], [at |-> Some(0), in |-> None],
    [at |-> None, in |-> Some(1)] }

RedirectCreateArgs ==
  [ slug : {Some(s) : s \in RedirectSlugs}, cap : OptCaps, exp : Expiries,
    pw : {None, Some("pw")}, meta : {None, Some("T")},
    cloak : {Some(FALSE), Some(TRUE)} ]

PublishUrl ==
  \E a \in RedirectCreateArgs :
     /\ Quiet /\ NoDrops
     /\ ShortenStart(1, None, URLCreate(a.slug, a.cap, a.exp.in, a.exp.at,
                                        a.pw, a.meta, a.cloak))

PublishBundle ==
  \E a \in RedirectCreateArgs :
     /\ Quiet /\ NoDrops
     /\ BundleStart(1, None, BundleCreate(a.slug, a.cap, a.exp.in, a.exp.at,
                                          a.pw, a.meta, a.cloak))

QuietTick == Quiet /\ Tick

Visit ==
  \E slug \in RedirectSlugs, ua \in UserAgents :
     Quiet /\ RedirectStart(1, slug, ua, None)

RedirectNext ==
  \/ PublishUrl
  \/ PublishBundle
  \/ ShortenSelectBundle(1)
  \/ ShortenInsert(1)
  \/ BundleSelectBundle(1)
  \/ BundleFlush(1)
  \/ BundleCommit(1)
  \/ BundleRefresh(1)
  \/ Visit
  \/ RedirectSelectUrl(1)
  \/ RedirectCommit(1)
  \/ Respond(1)
  \/ \E t \in BagToSet(tasks) : TrackClick(t)
  \/ QuietTick

SpecRedirect == Init /\ [][RedirectNext]_vars

\* Bodies of PUT /api/url/{slug} (schemas.URLUpdate) and of
\* PUT /api/bundle/{slug} (schemas.BundleUpdate) that ask for a new slug.
URLUpdateSlug(custom_slug) ==
  [ long_url |-> None, custom_slug |-> custom_slug, max_clicks |-> None,
    expires_at |-> None, password |-> None, meta_title |-> None,
    meta_description |-> None, is_cloaked |-> None ]

BundleUpdateSlug(custom_slug) ==
  [ custom_slug |-> custom_slug, title |-> None, description |-> None,
    items |-> None, theme_color |-> None, bg_image |-> None,
    max_clicks |-> None, expires_at |-> None, password |-> None,
    meta_title |-> None, meta_description |-> None, is_cloaked |-> None,
    access_level |-> None ]

(***************************************************************************)
(* SpecSlug: one request at a time.  User 1 creates single links, user 1   *)
(* and anonymous callers create bundles, and both rename and delete drops, *)
(* with slugs of their own choice (among them strings the codec produces)  *)
(* or assigned from the row id.                                            *)
(***************************************************************************)
SlugCallers == {None, Some(1)}
CustomSlugs == {"go", encode(1), "b-" \o encode(1)}
OptCustomSlugs == {None} \cup {Some(s) : s \in CustomSlugs}
PathSlugs == UrlSlugs \cup BundleSlugs \cup {"go"}

SlugShorten ==
  \E cs \in OptCustomSlugs :
     Quiet /\ ShortenStart(1, Some(1), URLCreate(cs, None, None, None, None,
                                                 None, Some(FALSE)))

SlugBundle ==
  \E user \in SlugCallers, cs \in OptCustomSlugs :
     Quiet /\ BundleStart(1, user, BundleCreate(cs, None, None, None, None,
                                                None, Some(FALSE)))

SlugUpdateUrl ==
  \E user \in SlugCallers, slug \in PathSlugs, cs \in CustomSlugs :
     Quiet /\ UpdateUrlStart(1, user, slug, URLUpdateSlug(Some(cs)))

SlugUpdateBundle ==
  \E user \in SlugCallers, slug \in PathSlugs, cs \in CustomSlugs :
     Quiet /\ UpdateBundleStart(1, user, slug, BundleUpdateSlug(Some(cs)))

SlugDelete ==
  \E user \in SlugCallers, slug \in PathSlugs :
     Quiet /\ DeleteStart(1, user, slug)

SlugNext ==
  \/ SlugShorten
  \/ SlugBundle
  \/ SlugUpdateUrl
  \/ SlugUpdateBundle
  \/ SlugDelete
  \/ ShortenSelectBundle(1)
  \/ ShortenInsert(1)
  \/ ShortenRefresh(1)
  \/ ShortenAssign(1)
  \/ BundleSelectBundle(1)
  \/ BundleFlush(1)
  \/ BundleCommit(1)
  \/ BundleRefresh(1)
  \/ UpdateUrlSelect(1)
  \/ UpdateUrlCheckUrl(1)
  \/ UpdateUrlCheckBundle(1)
  \/ UpdateUrlCommit(1)
  \/ UpdateUrlRefresh(1)
  \/ UpdateBundleSelect(1)
  \/ UpdateBundleSelectRole(1)
  \/ UpdateBundleCheckUrl(1)
  \/ UpdateBundleCheckBundle(1)
  \/ UpdateBundleCommit(1)
  \/ UpdateBundleRefresh(1)
  \/ DeleteSelectUrl(1)
  \/ DeleteSelectBundle(1)
  \/ DeleteLoad(1)
  \/ DeleteCommit(1)
  \/ Respond(1)

SpecSlug == Init /\ [][SlugNext]_vars

(***************************************************************************)
(* Properties of the redirect decision, read off finished requests: a      *)
(* request at "done" holds its response, and its pre field holds the drops *)
(* it was sent against.                                                    *)
(***************************************************************************)
Visited(r) == req[r].op = "redirect_url" /\ req[r].pc = "done"

\* The drops that carried the requested slug when request r arrived.
DropExists(r) ==
  LET pre == Val(req[r].pre)
  IN \/ \E i \in DOMAIN pre.bundles : pre.bundles[i].slug = req[r].slug
     \/ \E i \in DOMAIN pre.urls : pre.urls[i].slug = req[r].slug

ForDrop(r, P(_)) ==
  LET pre == Val(req[r].pre)
  IN /\ \A i \in DOMAIN pre.bundles :
          pre.bundles[i].slug = req[r].slug => P(pre.bundles[i])
     /\ \A i \in DOMAIN pre.urls :
          pre.urls[i].slug = req[r].slug => P(pre.urls[i])

SomeDrop(r, P(_)) ==
  LET pre == Val(req[r].pre)
  IN \/ \E i \in DOMAIN pre.bundles :
          pre.bundles[i].slug = req[r].slug /\ P(pre.bundles[i])
     \/ \E i \in DOMAIN pre.urls :
          pre.urls[i].slug = req[r].slug /\ P(pre.urls[i])

\* The rules of the redirect decision as the specification words them.
PastExpiry(d) == d.expires_at # None /\ Val(d.expires_at) < now
CapReached(d) == d.max_clicks # None /\ d.clicks >= Val(d.max_clicks)
Cloaked(d) == d.is_cloaked = Some(TRUE)
Protected(d) == d.password # None

RuleOutcome(d, ua) ==
  IF PastExpiry(d) \/ CapReached(d) THEN "Expired"
  ELSE IF Cloaked(d) /\ IsBot(ua) THEN "CloakPage"
  ELSE IF Protected(d) THEN "UnlockRequired"
  ELSE "Resolve"

\* C3 as stated: a drop with a password set never yields Resolve nor
\* CloakPage, whatever its cloak flag, the user-agent, its expiry and cap.
C3_PasswordNeverResolveNorCloak ==
  \A r \in Reqs :
     Visited(r) =>
       ForDrop(r, LAMBDA d :
         Protected(d) => req[r].out \notin {"Resolve", "CloakPage"})

\* C3 as amended: a drop with a password set never yields Resolve, and it
\* yields CloakPage only when it is cloaked and the user-agent is a bot's.
C3_PasswordNeverResolve ==
  \A r \in Reqs :
     Visited(r) =>
       ForDrop(r, LAMBDA d :
         Protected(d) =>
           /\ req[r].out # "Resolve"
           /\ req[r].out = "CloakPage" => Cloaked(d) /\ IsBot(req[r].ua))

C3_Witness ==
  \E r \in Reqs :
     /\ Visited(r)
     /\ req[r].out = "UnlockRequired"
     /\ SomeDrop(r, LAMBDA d : Protected(d) /\ Cloaked(d))

\* C4: the response is the outcome of the first matching rule, in the order
\* NotFound, Expired, CloakPage, UnlockRequired, Resolve, for both variants.
C4_FirstMatchingRule ==
  \A r \in Reqs :
     Visited(r) =>
       /\ ~DropExists(r) => req[r].out = "NotFound"
       /\ ForDrop(r, LAMBDA d : req[r].out = RuleOutcome(d, req[r].ua))

\* C5: an unexpired drop without password and with max_clicks = N, N >= 0,
\* yields Resolve exactly while clicks < N and Expired once clicks >= N, so
\* it has resolved exactly N times when it reports Expired.  (Read for the
\* requests the decision gets to answer with one of the two: the slug passes
\* the route guard and the cloak rule does not apply.)
C5_ResolveExactlyBelowCap ==
  \A r \in Reqs :
     Visited(r) /\ ~IsReserved(req[r].slug) =>
       ForDrop(r, LAMBDA d :
         /\ ~Protected(d) /\ ~PastExpiry(d) /\ d.max_clicks # None
         /\ ~(Cloaked(d) /\ IsBot(req[r].ua))
         => /\ req[r].out = "Resolve" <=> d.clicks < Val(d.max_clicks)
            /\ req[r].out = "Expired" <=> d.clicks >= Val(d.max_clicks))

\* C8: for an existing, unexpired, uncapped drop the response is CloakPage
\* exactly when the drop is cloaked and the user-agent carries a bot
\* signature.
C8_CloakExactlyForCloakedBot ==
  \A r \in Reqs :
     Visited(r) =>
       ForDrop(r, LAMBDA d :
         ~PastExpiry(d) /\ ~CapReached(d) =>
           (req[r].out = "CloakPage" <=> Cloaked(d) /\ IsBot(req[r].ua)))

\* C10: every Resolve response for a cloaked drop carries the no-referrer
\* policy header, as a MetaPreview page and as a PlainRedirect.
C10_CloakedResolveNoReferrer ==
  \A r \in Reqs :
     Visited(r) /\ req[r].out = "Resolve" =>
       ForDrop(r, LAMBDA d : Cloaked(d) => req[r].noref)

(***************************************************************************)
(* Properties of slug claims, checked under SpecSlug.                      *)
(***************************************************************************)
\* C1: in every reachable state no two drops share a slug: no two
\* SingleLinks, no two Bundles, and no SingleLink and Bundle.
C1_SlugGloballyUnique ==
  /\ \A i, j \in DOMAIN urls : i # j => urls[i].slug # urls[j].slug
  /\ \A i, j \in DOMAIN bundles : i # j => bundles[i].slug # bundles[j].slug
  /\ \A i \in DOMAIN urls, j \in DOMAIN bundles :
        urls[i].slug # bundles[j].slug

\* A creation request that came with a slug of its caller's choosing.
CreatesWithSlug(r) ==
  /\ req[r].op \in {"shorten_url", "create_bundle"}
  /\ TruthyStr(req[r].data.custom_slug)

\* The drops that held slug when request r arrived.
HeldBefore(r, slug) ==
  LET pre == Val(req[r].pre)
  IN \/ \E i \in DOMAIN pre.urls : pre.urls[i].slug = slug
     \/ \E i \in DOMAIN pre.bundles : pre.bundles[i].slug = slug

\* C2: creating a drop with a caller-supplied slug that an existing drop of
\* either variant holds is rejected with SlugConflict and creates nothing.
C2_TakenSlugRejected ==
  \A r \in Reqs :
     CreatesWithSlug(r) /\ HeldBefore(r, Val(req[r].data.custom_slug)) =>
       /\ req[r].pc \in {"select_bundle", "done"}
       /\ req[r].pc = "done" => req[r].out = "SlugConflict"
       /\ req[r].made = None
       /\ urls = Val(req[r].pre).urls
       /\ bundles = Val(req[r].pre).bundles

\* A new Bundle is refused the slug that a SingleLink was accepted with.
C2_Witness ==
  \E r \in Reqs :
     /\ req[r].op = "create_bundle" /\ req[r].pc = "done"
     /\ TruthyStr(req[r].data.custom_slug)
     /\ req[r].out = "SlugConflict"
     /\ \E i \in DOMAIN urls : urls[i].slug = Val(req[r].data.custom_slug)
     /\ bundles = Val(req[r].pre).bundles

(***************************************************************************)
(* SpecRace: visitors follow one capped drop at the same time.  Every      *)
(* request runs in a session of its own, and the steps of different        *)
(* requests interleave at the handler's awaits.                            *)
(***************************************************************************)
RaceCaps == {Some(n) : n \in 1..MaxCap}

RacePublishUrl ==
  \E cap \in RaceCaps :
     /\ Quiet /\ NoDrops
     /\ ShortenStart(1, None, URLCreate(Some("go"), cap, None, None, None,
                                        None, Some(FALSE)))

RacePublishBundle ==
  \E cap \in RaceCaps :
     /\ Quiet /\ NoDrops
     /\ BundleStart(1, None, BundleCreate(Some("go"), cap, None, None, None,
                                          None, Some(FALSE)))

RaceVisit ==
  \E r \in Reqs : ~NoDrops /\ RedirectStart(r, "go", "curl", None)

RaceNext ==
  \/ RacePublishUrl
  \/ RacePublishBundle
  \/ ShortenSelectBundle(1)
  \/ ShortenInsert(1)
  \/ BundleSelectBundle(1)
  \/ BundleFlush(1)
  \/ BundleCommit(1)
  \/ BundleRefresh(1)
  \/ RaceVisit
  \/ \E r \in Reqs : RedirectSelectUrl(r)
  \/ \E r \in Reqs : RedirectCommit(r)
  \/ \E r \in Reqs : Respond(r)
  \/ \E t \in BagToSet(tasks) : TrackClick(t)

SpecRace == Init /\ [][RaceNext]_vars

\* How many requests for a drop have returned Resolve.
ResolvedCount(kind, id) ==
  IF << kind, id >> \in DOMAIN resolved THEN resolved[<< kind, id >>] ELSE 0

\* C6: under any interleaving of concurrent redirects for a drop with
\* max_clicks = N, neither the number of requests that return Resolve nor
\* the stored click counter ever exceeds N.
C6_ResolvesWithinCap ==
  /\ \A i \in DOMAIN urls :
        urls[i].max_clicks # None =>
          /\ ResolvedCount("url", i) <= Val(urls[i].max_clicks)
          /\ urls[i].clicks <= Val(urls[i].max_clicks)
  /\ \A i \in DOMAIN bundles :
        bundles[i].max_clicks # None =>
          /\ ResolvedCount("bundle", i) <= Val(bundles[i].max_clicks)
          /\ bundles[i].clicks <= Val(bundles[i].max_clicks)

\* C7: after k redirects for a drop have returned Resolve, in any
\* interleaving, its click counter has increased by exactly k; each Resolve
\* enqueues one click-record write, so the counter never falls below the
\* number of writes enqueued for the drop.
C7_CounterCountsResolves ==
  /\ \A i \in DOMAIN urls : urls[i].clicks = ResolvedCount("url", i)
  /\ \A i \in DOMAIN bundles : bundles[i].clicks = ResolvedCount("bundle", i)

(***************************************************************************)
(* SpecFrame: one request at a time over up to two drops of any variants.  *)
(* Each drop is capped, password-protected or cloaked.                     *)
(***************************************************************************)
FrameSlugs == {"go", "to"}

FrameProfiles ==
  { [cap |-> Some(MaxCap), pw |-> None, cloak |-> Some(FALSE)],
    [cap |-> None, pw |-> Some("pw"), cloak |-> Some(FALSE)],
    [cap |-> None, pw |-> None, cloak |-> Some(TRUE)] }

FramePublishUrl ==
  \E s \in FrameSlugs, p \in FrameProfiles :
     /\ Quiet
     /\ ShortenStart(1, None, URLCreate(Some(s), p.cap, None, None, p.pw,
                                        None, p.cloak))

FramePublishBundle ==
  \E s \in FrameSlugs, p \in FrameProfiles :
     /\ Quiet
     /\ BundleStart(1, None, BundleCreate(Some(s), p.cap, None, None, p.pw,
                                          None, p.cloak))

FrameVisit ==
  \E slug \in FrameSlugs \cup {"Admin"}, ua \in UserAgents :
     Quiet /\ RedirectStart(1, slug, ua, None)

FrameNext ==
  \/ FramePublishUrl
  \/ FramePublishBundle
  \/ ShortenSelectBundle(1)
  \/ ShortenInsert(1)
  \/ BundleSelectBundle(1)
  \/ BundleFlush(1)
  \/ BundleCommit(1)
  \/ BundleRefresh(1)
  \/ FrameVisit
  \/ RedirectSelectUrl(1)
  \/ RedirectCommit(1)
  \/ Respond(1)
  \/ \E t \in BagToSet(tasks) : TrackClick(t)

SpecFrame == Init /\ [][FrameNext]_vars

\* C9: a redirect that ends in NotFound, Expired, CloakPage or
\* UnlockRequired leaves every click counter unchanged and enqueues no
\* click-record write; one that ends in Resolve increments the counter of
\* the drop it resolved by exactly 1, enqueues exactly one click-record
\* write referencing that drop, and changes no other drop.
C9_RedirectFrame ==
  \A r \in Reqs :
     Visited(r) =>
       LET pre == Val(req[r].pre)
       IN /\ req[r].out \in {"NotFound", "Expired", "CloakPage",
                             "UnlockRequired"} =>
               /\ urls = pre.urls
               /\ bundles = pre.bundles
               /\ req[r].task = None
          /\ req[r].out = "Resolve" =>
               /\ req[r].task # None
               /\ LET t == Val(req[r].task)
                  IN IF t.kind = "bundle"
                       THEN /\ t.id \in DOMAIN pre.bundles
                            /\ pre.bundles[t.id].slug = req[r].slug
                            /\ bundles = [pre.bundles EXCEPT
                                            ![t.id].clicks = @ + 1]
                            /\ urls = pre.urls
                       ELSE /\ t.kind = "url"
                            /\ t.id \in DOMAIN pre.urls
                            /\ pre.urls[t.id].slug = req[r].slug
                            /\ urls = [pre.urls EXCEPT
                                         ![t.id].clicks = @ + 1]
                            /\ bundles = pre.bundles

\* A request resolved one of two stored drops.
C9_Witness ==
  \E r \in Reqs :
     /\ Visited(r)
     /\ req[r].out = "Resolve"
     /\ req[r].task # None
     /\ Cardinality(DOMAIN urls) + Cardinality(DOMAIN bundles) = 2

(***************************************************************************)
(* SpecCloak: bots follow up to two cloaked drops of either variant at the *)
(* same time.  The drops differ in slug and may differ in destination      *)
(* (long URL, items), in title and description, and in meta fields.        *)
(***************************************************************************)
CloakSlugs == {"go", "to"}
CloakTargets == {"https://t.example/a", "https://t.example/b"}
CloakItems ==
  { << [label |-> "one", url |-> "https://t.example/1",
        is_spotlight |-> FALSE] >>,
    << [label |-> "two", url |-> "https://t.example/2",
        is_spotlight |-> FALSE] >> }
CloakMeta == [title : {None, Some("T")}, desc : {None, Some("D")}]

CloakPublishUrl ==
  \E s \in CloakSlugs, to \in CloakTargets, m \in CloakMeta :
     /\ Quiet
     /\ ShortenStart(1, None,
          [URLCreate(Some(s), None, None, None, None, m.title, Some(TRUE))
             EXCEPT !.long_url = to, !.meta_description = m.desc])

CloakPublishBundle ==
  \E s \in CloakSlugs, it \in CloakItems, t \in {"Studio", "Shop"},
     d \in {None, Some("D")}, mt \in {None, Some("T")} :
     /\ Quiet
     /\ BundleStart(1, None,
          [BundleCreate(Some(s), None, None, None, None, mt, Some(TRUE))
             EXCEPT !.items = it, !.title = t, !.description = d])

\* Two answers are compared, so two requests are in flight at most.
CloakReqs == {r \in Reqs : r <= 2}

CloakVisit ==
  \E r \in CloakReqs, slug \in CloakSlugs :
     ~NoDrops /\ RedirectStart(r, slug, "XBot", None)

CloakNext ==
  \/ CloakPublishUrl
  \/ CloakPublishBundle
  \/ ShortenSelectBundle(1)
  \/ ShortenInsert(1)
  \/ BundleSelectBundle(1)
  \/ BundleFlush(1)
  \/ BundleCommit(1)
  \/ BundleRefresh(1)
  \/ CloakVisit
  \/ \E r \in CloakReqs : RedirectSelectUrl(r)
  \/ \E r \in CloakReqs : Respond(r)

SpecCloak == Init /\ [][CloakNext]_vars

\* The request was answered with the cloak page of a drop of this variant.
Cloaking(r, kind) ==
  Visited(r) /\ req[r].out = "CloakPage" /\ req[r].kind = kind

\* What the visitor receives.
Answer(r) ==
  [ out |-> req[r].out, render |-> req[r].render, target |-> req[r].target,
    noref |-> req[r].noref, body |-> req[r].body ]

SameMeta(d, e) ==
  d.meta_title = e.meta_title /\ d.meta_description = e.meta_description

\* C11: the CloakPage response does not depend on the drop's destination:
\* two drops that agree on title, description and meta fields but differ in
\* their target (long URL, or bundle slug and items) get identical CloakPage
\* responses for the same request.
C11_CloakPageHidesTarget ==
  \A r, q \in Reqs :
     /\ Cloaking(r, "url") /\ Cloaking(q, "url") /\ req[r].ua = req[q].ua
        /\ SameMeta(Val(req[r].obj), Val(req[q].obj))
        => Answer(r) = Answer(q)
     /\ Cloaking(r, "bundle") /\ Cloaking(q, "bundle") /\ req[r].ua = req[q].ua
        /\ SameMeta(Val(req[r].obj), Val(req[q].obj))
        /\ Val(req[r].obj).title = Val(req[q].obj).title
        /\ Val(req[r].obj).description = Val(req[q].obj).description
        => Answer(r) = Answer(q)

\* Two bots are shown the cloak pages of two single links with different
\* destinations and of equal meta fields.
C11_Witness ==
  \E r, q \in Reqs :
     /\ Cloaking(r, "url") /\ Cloaking(q, "url")
     /\ SameMeta(Val(req[r].obj), Val(req[q].obj))
     /\ Val(req[r].obj).long_url # Val(req[q].obj).long_url
     /\ req[r].body # ""

(***************************************************************************)
(* SpecAuth: one request at a time.  Users 1 and 2 and anonymous callers   *)
(* publish up to two drops; an owner grants one collaboration, on all      *)
(* drops or on a stored bundle; owners, collaborators, strangers and       *)
(* anonymous callers read and patch bundles.                               *)
(***************************************************************************)
AuthSlugs == {"go", "to"}
AuthOwners == {None, Some(1), Some(2)}
AuthCallers == {None} \cup {Some(u) : u \in Users}
NoGrants == DOMAIN collabs = {}

\* Bodies of POST /api/team/invite (schemas.CollaborationCreate).
CollaborationCreate(collaborator_email, bundle_id, role) ==
  [ collaborator_email |-> collaborator_email, bundle_id |-> bundle_id,
    role |-> role ]

\* A patch that opens a bundle to public editors, and one that sets every
\* field.
OpenPatch == [BundleUpdateSlug(None) EXCEPT !.access_level = Some("edit")]
FullPatch(custom_slug) ==
  [ custom_slug |-> Some(custom_slug), title |-> Some("Renamed"),
    description |-> Some("new text"),
    items |-> Some(<< [label |-> "two", url |-> "https://t.example/2",
                       is_spotlight |-> TRUE] >>),
    theme_color |-> Some("#ffffff"), bg_image |-> Some("bg.png"),
    max_clicks |-> Some(1), expires_at |-> Some(1), password |-> Some("pw"),
    meta_title |-> Some("M"), meta_description |-> Some("MD"),
    is_cloaked |-> Some(TRUE), access_level |-> Some("view") ]
AuthPatches == {OpenPatch} \cup {FullPatch(s) : s \in AuthSlugs}

AuthPublishBundle ==
  \E owner \in AuthOwners, s \in AuthSlugs :
     /\ Quiet
     /\ BundleStart(1, owner, BundleCreate(Some(s), None, None, None, None,
                                           None, Some(FALSE)))

AuthPublishUrl ==
  \E owner \in AuthOwners \ {None}, s \in AuthSlugs :
     /\ Quiet
     /\ ShortenStart(1, owner, URLCreate(Some(s), None, None, None, None,
                                         None, Some(FALSE)))

AuthInvite ==
  \E user \in AuthOwners \ {None}, to \in Users, bid \in {None, Some(1)},
     role \in {"analyst", "owner"} :
     /\ Quiet /\ NoGrants
     /\ (bid # None => Val(bid) \in DOMAIN bundles)
     /\ InviteStart(1, user, CollaborationCreate(Email(to), bid, role))

AuthDetails ==
  \E user \in AuthCallers, slug \in AuthSlugs :
     Quiet /\ GetDropDetails(1, user, slug)

AuthUpdate ==
  \E user \in AuthCallers, slug \in AuthSlugs, patch \in AuthPatches :
     Quiet /\ UpdateBundleStart(1, user, slug, patch)

AuthUpdateUrl ==
  \E user \in AuthCallers, slug \in AuthSlugs :
     /\ Quiet
     /\ UpdateUrlStart(1, user, slug,
                       [URLUpdateSlug(None) EXCEPT !.meta_title = Some("M")])

AuthNext ==
  \/ AuthPublishBundle
  \/ AuthPublishUrl
  \/ AuthInvite
  \/ AuthDetails
  \/ DetailsSelectUrl(1)
  \/ DetailsSelectBundle(1)
  \/ DetailsSelectRole(1)
  \/ AuthUpdate
  \/ AuthUpdateUrl
  \/ ShortenSelectBundle(1)
  \/ ShortenInsert(1)
  \/ BundleSelectBundle(1)
  \/ BundleFlush(1)
  \/ BundleCommit(1)
  \/ BundleRefresh(1)
  \/ InviteSelectGrant(1)
  \/ InviteSelectTitle(1)
  \/ InviteCommit(1)
  \/ UpdateBundleSelect(1)
  \/ UpdateBundleSelectRole(1)
  \/ UpdateBundleCheckUrl(1)
  \/ UpdateBundleCheckBundle(1)
  \/ UpdateBundleCommit(1)
  \/ UpdateBundleRefresh(1)
  \/ UpdateUrlSelect(1)
  \/ UpdateUrlCommit(1)
  \/ UpdateUrlRefresh(1)
  \/ Respond(1)

SpecAuth == Init /\ [][AuthNext]_vars

(***************************************************************************)
(* Properties of the authorization resolver, read off finished requests.   *)
(***************************************************************************)
\* Request r, a read or a patch, has passed its decision.
Resolving(r) ==
  \/ req[r].op = "get_drop_details" /\ req[r].pc = "done"
  \/ req[r].op \in {"update_bundle", "update_url"}
       /\ req[r].pc \in {"check_url", "check_bundle", "commit", "refresh",
                         "done"}

IsBundle(d) == "access_level" \in DOMAIN d

\* update_bundle addresses bundles and update_url single links.
Addresses(r, d) ==
  /\ req[r].op = "update_bundle" => IsBundle(d)
  /\ req[r].op = "update_url" => ~IsBundle(d)

\* The grants request r found: those of user s, and a global one by o to s.
HasGrant(r, s) ==
  LET pre == Val(req[r].pre)
  IN \E c \in DOMAIN pre.collabs : pre.collabs[c].collaborator_id = s

HasGlobalGrant(r, o, s) ==
  LET pre == Val(req[r].pre)
  IN \E c \in DOMAIN pre.collabs :
        /\ pre.collabs[c].owner_id = o
        /\ pre.collabs[c].collaborator_id = s
        /\ pre.collabs[c].bundle_id = None

OnlyGrant(r, o, s) ==
  LET pre == Val(req[r].pre)
  IN \A c \in DOMAIN pre.collabs :
        pre.collabs[c].collaborator_id = s =>
          pre.collabs[c].owner_id = o /\ pre.collabs[c].bundle_id = None

\* The request was refused, as a requester without role is.
Rejected(r) ==
  /\ req[r].op \in {"get_drop_details", "update_url"} =>
       req[r].out = "NotFound"
  /\ req[r].op = "update_bundle" =>
       req[r].out = "NotAuthorized" /\ req[r].role = None

\* The request was admitted as a manager's.
AdmittedAsManager(r) ==
  /\ req[r].out \notin {"NotFound", "NotAuthorized", "Error"}
  /\ req[r].op # "update_url" => req[r].role = Some("manager")

\* The request found no role for its requester on drop d.
NoRoleOn(r, d) ==
  IF IsBundle(d) /\ req[r].op = "update_bundle" THEN req[r].role = None
  ELSE IF IsBundle(d) /\ d.access_level # "restricted"
    THEN req[r].role = Some("viewer")
  ELSE req[r].out = "NotFound"

\* C12: on a restricted Bundle owned by O, a user S without Collaboration
\* row has no role and is rejected by get_drop_details and update_bundle;
\* with a global Collaboration (O, S, null), S is manager on every Bundle and
\* SingleLink of O, and has no role on drops of other owners.
C12_GlobalGrantMakesManager ==
  \A r \in Reqs, s \in Users :
     Resolving(r) /\ req[r].user = Some(s) =>
       /\ ~HasGrant(r, s) =>
            ForDrop(r, LAMBDA d :
              /\ IsBundle(d) /\ Addresses(r, d)
              /\ d.access_level = "restricted"
              /\ d.user_id \notin {None, Some(s)}
              => Rejected(r))
       /\ \A o \in Users \ {s} :
            HasGlobalGrant(r, o, s) =>
              ForDrop(r, LAMBDA d :
                Addresses(r, d) =>
                  /\ d.user_id = Some(o) => AdmittedAsManager(r)
                  /\ d.user_id \notin {Some(o), Some(s)} /\ OnlyGrant(r, o, s)
                     => NoRoleOn(r, d))

\* A global collaborator reads a bundle of the granting owner as manager.
C12_Witness ==
  \E r \in Reqs, o, s \in Users :
     /\ o # s
     /\ req[r].op = "get_drop_details" /\ req[r].pc = "done"
     /\ req[r].user = Some(s)
     /\ HasGlobalGrant(r, o, s)
     /\ req[r].kind = "bundle"
     /\ Val(req[r].obj).user_id = Some(o)
     /\ req[r].role = Some("manager")

\* A patch by a requester who is neither owner nor manager went through.
PublicEdit(r) ==
  /\ req[r].op = "update_bundle" /\ req[r].pc = "done"
  /\ req[r].out = "Updated"
  /\ req[r].role \notin {Some("owner"), Some("manager")}

\* Python's `if x:` on the patch's fields that are applied when truthy.
Given(old, new) == IF TruthyStr(new) THEN Val(new) ELSE old

\* C13: update_bundle by a requester whose role is neither owner nor manager
\* leaves access_level, slug, password, max_clicks, expires_at and is_cloaked
\* unchanged whatever the patch contains, and applies only the content
\* fields (title, description, items, styling, meta).
C13_PublicEditorContentOnly ==
  \A r \in Reqs :
     PublicEdit(r) =>
       LET id == Val(req[r].loaded).id
           old == Val(req[r].pre).bundles[id]
           new == bundles[id]
           patch == req[r].data
       IN /\ new.access_level = old.access_level
          /\ new.slug = old.slug
          /\ new.password = old.password
          /\ new.max_clicks = old.max_clicks
          /\ new.expires_at = old.expires_at
          /\ new.is_cloaked = old.is_cloaked
          /\ new = [old EXCEPT
                      !.title = Given(@, patch.title),
                      !.description = IF patch.description # None
                                        THEN patch.description ELSE @,
                      !.items = IF patch.items # None
                                  THEN Val(patch.items) ELSE @,
                      !.theme_color = IF TruthyStr(patch.theme_color)
                                        THEN patch.theme_color ELSE @,
                      !.bg_image = IF patch.bg_image # None
                                     THEN patch.bg_image ELSE @,
                      !.meta_title = IF patch.meta_title # None
                                       THEN patch.meta_title ELSE @,
                      !.meta_description = IF patch.meta_description # None
                                             THEN patch.meta_description
                                             ELSE @]
          /\ \A i \in DOMAIN bundles \ {id} :
                bundles[i] = Val(req[r].pre).bundles[i]

\* A public editor sent a patch that names every field.
C13_Witness ==
  \E r \in Reqs :
     /\ PublicEdit(r)
     /\ req[r].data.access_level = Some("view")
     /\ req[r].data.password # None
     /\ bundles[Val(req[r].loaded).id].title = "Renamed"

\* C14: for every restricted Bundle, created by a user or anonymously, an
\* update_bundle request from an unauthenticated requester resolves to no
\* role, is rejected with NotAuthorized, and leaves the bundle unchanged.
C14_AnonymousUpdateRejected ==
  \A r \in Reqs :
     req[r].op = "update_bundle" /\ req[r].pc # "idle" /\ req[r].user = None
     => ForDrop(r, LAMBDA d :
          "access_level" \in DOMAIN d /\ d.access_level = "restricted" =>
            /\ req[r].pc = "done"
            /\ req[r].out = "NotAuthorized"
            /\ req[r].role = None
            /\ bundles = Val(req[r].pre).bundles)

\* C18: in every reachable state the role of every Collaboration row is
\* manager or analyst, so no collaborator is resolved to owner through a
\* Collaboration row.
C18_RolesManagerOrAnalyst ==
  /\ \A c \in DOMAIN collabs :
        collabs[c].role \in {Some("manager"), Some("analyst")}
  /\ \A r \in Reqs :
        Resolving(r) /\ req[r].role = Some("owner") /\ req[r].kind = "bundle"
        /\ req[r].loaded # None
        => Val(req[r].loaded).user_id = req[r].user

(***************************************************************************)
(* SpecTeam: one request at a time.  User 1 and anonymous callers publish  *)
(* bundles; users invite each other as managers, to the bundle with id 1   *)
(* (stored or not) or to all their drops; users join bundles by token; the *)
(* first grant is withdrawn or given up, the first notification read.      *)
(***************************************************************************)
TeamSlugs == {"go", "to"}
TeamEmails == {Email(1), "U2@X.io", "nobody@x.io"}
TeamTokens ==
  {FreshToken("mt", 1), FreshToken("at", 1), FreshToken("mt", 2), "bad"}

TeamPublishBundle ==
  \E owner \in {None, Some(1)}, s \in TeamSlugs :
     /\ Quiet
     /\ BundleStart(1, owner, BundleCreate(Some(s), None, None, None, None,
                                           None, Some(FALSE)))

TeamInvite ==
  \E user \in {None, Some(1), Some(2)}, email \in TeamEmails,
     bid \in {None, Some(1)} :
     Quiet /\ InviteStart(1, user, CollaborationCreate(email, bid, "manager"))

TeamMarkRead ==
  \E user \in {None, Some(2)} : Quiet /\ MarkReadStart(1, user, 1)

TeamRemove ==
  \E user \in {None, Some(1), Some(3)} :
     Quiet /\ RemoveStart(1, user, 1)


TeamJoin ==
  \E user \in {None, Some(2), Some(3)}, slug \in TeamSlugs,
     token \in TeamTokens :
     Quiet /\ JoinStart(1, user, slug, token)

TeamNext ==
  \/ TeamPublishBundle
  \/ TeamInvite
  \/ TeamJoin
  \/ TeamRemove
  \/ TeamMarkRead
  \/ BundleSelectBundle(1)
  \/ BundleFlush(1)
  \/ BundleCommit(1)
  \/ BundleRefresh(1)
  \/ InviteSelectGrant(1)
  \/ InviteSelectTitle(1)
  \/ InviteCommit(1)
  \/ JoinSelectGrant(1)
  \/ JoinCommit(1)
  \/ RemoveCommit(1)
  \/ MarkReadCommit(1)
  \/ Respond(1)

SpecTeam == Init /\ [][TeamNext]_vars

\* A finished join by an authenticated user that addressed bundle b.
Joined(r, b) ==
  /\ req[r].op = "join_bundle" /\ req[r].pc = "done"
  /\ req[r].user # None
  /\ b.slug = req[r].slug

\* The role a token stands for on bundle b, by the specification.
RoleOfToken(b, token) ==
  IF b.manager_token = Some(token) THEN Some("manager")
  ELSE IF b.analyst_token = Some(token) THEN Some("analyst")
  ELSE None

BundlesBefore(r) ==
  IF req[r].pre = None THEN {}
  ELSE { Val(req[r].pre).bundles[i] : i \in DOMAIN Val(req[r].pre).bundles }

\* The rows of one table that a request added.
Added(before, after) == { after[i] : i \in DOMAIN after \ DOMAIN before }
Kept(before, after) ==
  /\ DOMAIN before \subseteq DOMAIN after
  /\ \A i \in DOMAIN before : after[i] = before[i]

\* C15: a join with the bundle's manager_token (analyst_token) creates one
\* bundle-scoped Collaboration with role manager (analyst) when the user has
\* none on that bundle; a later join by the same user on the same bundle
\* returns the existing-membership outcome and leaves the Collaboration
\* rows, the existing row's role included, unchanged.
C15_JoinOnceThenMember ==
  \A r \in Reqs :
     \A b \in BundlesBefore(r) :
        Joined(r, b) /\ RoleOfToken(b, req[r].data.token) # None =>
          LET pre == Val(req[r].pre)
              u == Val(req[r].user)
              member == \E c \in DOMAIN pre.collabs :
                           /\ pre.collabs[c].collaborator_id = u
                           /\ pre.collabs[c].bundle_id = Some(b.id)
          IN IF member
               THEN req[r].out = "AlreadyJoined" /\ collabs = pre.collabs
               ELSE /\ req[r].out = "Joined"
                    /\ Kept(pre.collabs, collabs)
                    /\ \E row \in Added(pre.collabs, collabs) :
                          /\ Added(pre.collabs, collabs) = {row}
                          /\ row.collaborator_id = u
                          /\ row.bundle_id = Some(b.id)
                          /\ row.role = RoleOfToken(b, req[r].data.token)

\* C16: a join with a token that is neither the manager_token nor the
\* analyst_token of the addressed bundle (a valid token of another bundle
\* included) fails with InvalidToken and creates no Collaboration row.
C16_ForeignTokenRejected ==
  \A r \in Reqs :
     \A b \in BundlesBefore(r) :
        Joined(r, b) /\ RoleOfToken(b, req[r].data.token) = None =>
          req[r].out = "InvalidToken" /\ collabs = Val(req[r].pre).collabs

\* A user presents the manager token of one bundle at another.
C16_Witness ==
  \E r \in Reqs :
     \E b, other \in BundlesBefore(r) :
        /\ Joined(r, b)
        /\ other.id # b.id
        /\ other.manager_token = Some(req[r].data.token)
        /\ req[r].out = "InvalidToken"

\* A finished invitation by an authenticated user.
Invited(r) ==
  /\ req[r].op = "invite_collaborator" /\ req[r].pc = "done"
  /\ req[r].user # None

\* The users that have the (lower-cased) email of the invitation.
Invitees(r) ==
  {u \in Users : Email(u) = Lower(req[r].data.collaborator_email)}

\* C19: invite_collaborator fails when no user has the given email, when
\* the invited user is the inviter, or when a Collaboration for the same
\* (owner, collaborator, bundle_id) exists, and then creates neither a
\* Collaboration nor a Notification; on success it creates exactly one
\* Collaboration and exactly one unread Notification addressed to the
\* invited user.
C19_InviteAllOrNothing ==
  \A r \in Reqs :
     Invited(r) =>
       LET pre == Val(req[r].pre)
           me == Val(req[r].user)
           duplicate ==
             \E u \in Invitees(r), c \in DOMAIN pre.collabs :
                /\ pre.collabs[c].owner_id = me
                /\ pre.collabs[c].collaborator_id = u
                /\ pre.collabs[c].bundle_id = req[r].data.bundle_id
       IN /\ Invitees(r) = {} \/ me \in Invitees(r) \/ duplicate
             => req[r].out \in {"NotFound", "SelfInvite", "DuplicateGrant"}
          /\ req[r].out # "Invited" =>
               collabs = pre.collabs /\ notifs = pre.notifs
          /\ req[r].out = "Invited" =>
               /\ Kept(pre.collabs, collabs) /\ Kept(pre.notifs, notifs)
               /\ \E row \in Added(pre.collabs, collabs) :
                     /\ Added(pre.collabs, collabs) = {row}
                     /\ row.owner_id = me
                     /\ row.collaborator_id \in Invitees(r)
                     /\ row.bundle_id = req[r].data.bundle_id
               /\ \E n \in Added(pre.notifs, notifs) :
                     /\ Added(pre.notifs, notifs) = {n}
                     /\ n.user_id \in Invitees(r)
                     /\ n.is_read = FALSE

\* An invitation is refused as a duplicate of a stored grant.
C19_Witness ==
  \E r \in Reqs :
     /\ Invited(r)
     /\ req[r].out = "DuplicateGrant"
     /\ DOMAIN collabs # {}
     /\ DOMAIN notifs # {}

(***************************************************************************)
(* SpecGrant: user 1 owns a bundle; invitations by user 1 to user 2 (to    *)
(* the bundle, to a bundle_id of 0, or to all drops), joins by user 2 and  *)
(* removals of grants by either run at the same time.                      *)
(***************************************************************************)
GrantPublishBundle ==
  /\ Quiet /\ NoDrops
  /\ BundleStart(1, Some(1), BundleCreate(Some("go"), None, None, None, None,
                                          None, Some(FALSE)))

GrantInvite ==
  \E r \in Reqs, bid \in {None, Some(0), Some(1)} :
     /\ ~NoDrops
     /\ InviteStart(r, Some(1), CollaborationCreate(Email(2), bid, "manager"))

GrantJoin ==
  \E r \in Reqs, token \in {FreshToken("mt", 1), FreshToken("at", 1)} :
     ~NoDrops /\ JoinStart(r, Some(2), "go", token)

GrantRemove ==
  \E r \in Reqs, user \in {Some(1), Some(2)}, col_id \in 1..MaxCollabs :
     ~NoDrops /\ RemoveStart(r, user, col_id)

GrantNext ==
  \/ GrantPublishBundle
  \/ BundleSelectBundle(1)
  \/ BundleFlush(1)
  \/ BundleCommit(1)
  \/ BundleRefresh(1)
  \/ GrantInvite
  \/ GrantJoin
  \/ GrantRemove
  \/ \E r \in Reqs : RemoveCommit(r)
  \/ \E r \in Reqs : InviteSelectGrant(r)
  \/ \E r \in Reqs : InviteSelectTitle(r)
  \/ \E r \in Reqs : InviteCommit(r)
  \/ \E r \in Reqs : JoinSelectGrant(r)
  \/ \E r \in Reqs : JoinCommit(r)
  \/ \E r \in Reqs : Respond(r)

SpecGrant == Init /\ [][GrantNext]_vars

\* C17: in every reachable state, also after concurrent invitations and
\* joins, there is at most one Collaboration row per (owner, collaborator,
\* bundle_id) triple, a null bundle_id counted as a value.
C17_OneGrantPerTriple ==
  \A c, d \in DOMAIN collabs :
     /\ collabs[c].owner_id = collabs[d].owner_id
     /\ collabs[c].collaborator_id = collabs[d].collaborator_id
     /\ collabs[c].bundle_id = collabs[d].bundle_id
     => c = d

(***************************************************************************)
(* SpecCodec: numbers 0..MaxNum are encoded and the result decoded.        *)
(***************************************************************************)
CodecEncode ==
  \E n \in 0..MaxNum :
     /\ req[1].pc = "idle"
     /\ req' = [req EXCEPT ![1] =
          [IdleReq EXCEPT !.op = "encode", !.pc = "encoded",
                          !.data = [num |-> n], !.slug = encode(n)]]
     /\ UNCHANGED << tables, seqs, tasks, now, resolved >>

CodecDecode ==
  /\ req[1].op = "encode" /\ req[1].pc = "encoded"
  /\ req' = [req EXCEPT ![1].op = "decode", ![1].pc = "done",
                        ![1].made = Some(decode(req[1].slug))]
  /\ UNCHANGED << tables, seqs, tasks, now, resolved >>

CodecNext ==
  \/ CodecEncode
  \/ CodecDecode
  \/ Respond(1)

SpecCodec == Init /\ [][CodecNext]_vars

\* C20: decode(encode(n)) = n for every non-negative integer n.
C20_DecodeInvertsEncode ==
  \A r \in Reqs :
     req[r].op = "decode" /\ req[r].pc = "done" =>
       req[r].made = Some(req[r].data.num)

\* A number of three letters made the round trip.
C20_Witness ==
  \E r \in Reqs :
     /\ req[r].op = "decode" /\ req[r].pc = "done"
     /\ req[r].data.num >= BASE * BASE
     /\ Len(req[r].slug) = 3 * LetterLen
     /\ req[r].made = Some(req[r].data.num)

(***************************************************************************)
(* SpecClaim: requests of user 1 that create single links and bundles,     *)
(* with the slug "go" or a slug assigned from the row id, and requests     *)
(* that rename a single link to "go", are handled at the same time: any    *)
(* request may run its SELECTs before another one commits.                 *)
(***************************************************************************)
ClaimSlugs == {"go"}
OptClaimSlugs == {None} \cup {Some(s) : s \in ClaimSlugs}

ClaimShorten ==
  \E r \in Reqs, cs \in OptClaimSlugs :
     ShortenStart(r, Some(1), URLCreate(cs, None, None, None, None, None,
                                        Some(FALSE)))

ClaimBundle ==
  \E r \in Reqs, cs \in OptClaimSlugs :
     BundleStart(r, Some(1), BundleCreate(cs, None, None, None, None,
                                          None, Some(FALSE)))

ClaimUpdateUrl ==
  \E r \in Reqs, slug \in UrlSlugs \ {""}, cs \in ClaimSlugs :
     UpdateUrlStart(r, Some(1), slug, URLUpdateSlug(Some(cs)))

ClaimNext ==
  \/ ClaimShorten
  \/ ClaimBundle
  \/ ClaimUpdateUrl
  \/ \E r \in Reqs : ShortenSelectBundle(r)
  \/ \E r \in Reqs : ShortenInsert(r)
  \/ \E r \in Reqs : ShortenRefresh(r)
  \/ \E r \in Reqs : ShortenAssign(r)
  \/ \E r \in Reqs : BundleSelectBundle(r)
  \/ \E r \in Reqs : BundleFlush(r)
  \/ \E r \in Reqs : BundleResume(r)
  \/ \E r \in Reqs : BundleCommit(r)
  \/ \E r \in Reqs : BundleRefresh(r)
  \/ \E r \in Reqs : UpdateUrlSelect(r)
  \/ \E r \in Reqs : UpdateUrlCheckUrl(r)
  \/ \E r \in Reqs : UpdateUrlCheckBundle(r)
  \/ \E r \in Reqs : UpdateUrlCommit(r)
  \/ \E r \in Reqs : UpdateUrlRefresh(r)
  \/ \E r \in Reqs : Respond(r)

SpecClaim == Init /\ [][ClaimNext]_vars

\* The finished request asked for a slug of the caller's choice.
ClaimedSlug(r) ==
  /\ req[r].pc = "done"
  /\ req[r].op \in {"shorten_url", "create_bundle", "update_url"}
  /\ TruthyStr(req[r].data.custom_slug)

\* C21: of concurrent requests that claim the same caller-supplied slug at
\* most one drop, of either variant, ends up with the slug, and a request
\* that loses is answered with SlugConflict, never with an unhandled error.
C21_SlugRaceHasOneWinner ==
  /\ \A s \in ClaimSlugs :
        Cardinality(UrlsBySlug(s)) + Cardinality(BundlesBySlug(s)) <= 1
  /\ \A r \in Reqs :
        ClaimedSlug(r) =>
          req[r].out \in {"Created", "Updated", "SlugConflict", "NotFound"}

\* C29: shorten_url without a caller-supplied slug succeeds and leaves the
\* new single link with slug encode(id), however it is interleaved with
\* other shorten_url requests.
C29_AutoSlugAlwaysAssigned ==
  \A r \in Reqs :
     /\ req[r].op = "shorten_url" /\ req[r].pc = "done"
     /\ ~TruthyStr(req[r].data.custom_slug)
     => /\ req[r].out = "Created"
        /\ req[r].made # None
        /\ Val(req[r].made) \in DOMAIN urls
        /\ urls[Val(req[r].made)].slug = encode(Val(req[r].made))

(***************************************************************************)
(* SpecPurge: user 1 publishes plain drops under the slug "go" and deletes *)
(* them while visitors follow the slug; redirects, deletions and the       *)
(* click-record writes of earlier redirects interleave freely.             *)
(***************************************************************************)
PurgePublishUrl ==
  /\ Quiet /\ NoDrops
  /\ ShortenStart(1, Some(1), URLCreate(Some("go"), None, None, None, None,
                                        None, Some(FALSE)))

PurgePublishBundle ==
  /\ Quiet /\ NoDrops
  /\ BundleStart(1, Some(1), BundleCreate(Some("go"), None, None, None, None,
                                          None, Some(FALSE)))

\* At most one redirect and one deletion are in flight: visitors come in on
\* the first slot, deletions on the second.
PurgeReqs == {r \in Reqs : r <= 2}

PurgeVisit ==
  \E r \in PurgeReqs : r = 1 /\ ~NoDrops /\ RedirectStart(r, "go", "curl", None)

PurgeDelete ==
  \E r \in PurgeReqs : r = 2 /\ ~NoDrops /\ DeleteStart(r, Some(1), "go")

PurgeNext ==
  \/ PurgePublishUrl
  \/ PurgePublishBundle
  \/ ShortenSelectBundle(1)
  \/ ShortenInsert(1)
  \/ BundleSelectBundle(1)
  \/ BundleFlush(1)
  \/ BundleCommit(1)
  \/ BundleRefresh(1)
  \/ PurgeVisit
  \/ PurgeDelete
  \/ \E r \in PurgeReqs : RedirectSelectUrl(r)
  \/ \E r \in PurgeReqs : RedirectCommit(r)
  \/ \E r \in PurgeReqs : DeleteSelectUrl(r)
  \/ \E r \in PurgeReqs : DeleteSelectBundle(r)
  \/ \E r \in PurgeReqs : DeleteLoad(r)
  \/ \E r \in PurgeReqs : DeleteCommit(r)
  \/ \E r \in PurgeReqs : Respond(r)
  \/ \E t \in BagToSet(tasks) : TrackClick(t)

SpecPurge == Init /\ [][PurgeNext]_vars

\* The drop a click row, or a click-record write, refers to.
ClickKey(c) ==
  IF c.url_id # None THEN << "url", Val(c.url_id) >>
  ELSE << "bundle", Val(c.bundle_id) >>

\* Redirect responses produced so far.
Responses ==
  LET RECURSIVE Sum(_)
      Sum(ks) == IF ks = {} THEN 0
                 ELSE LET k == CHOOSE k \in ks : TRUE
                      IN resolved[k] + Sum(ks \ {k})
  IN Sum(DOMAIN resolved)

\* Click-record writes that have run, wait to run, or are still carried by a
\* response that has not left.
WritesRun == next_click_id - 1
WritesWaiting == BagCardinality(tasks)
WritesCarried == Cardinality({r \in Reqs : req[r].task # None})

\* This step is a click-record write: it draws a click id.
WriteStep == next_click_id' # next_click_id

\* This step produces the response of a request.
ResponseStep(r) == req[r].pc # "done" /\ req'[r].pc = "done"

\* C22: a click-record write runs only after a Resolve response that has
\* been produced and has left; the step that produces a redirect response
\* runs no write and waits for none; and a write, whether its INSERT is
\* accepted or rejected, leaves every response and every drop (its click
\* counter included) as they were.
C22_WriteAfterResponse ==
  /\ [](WritesRun + WritesWaiting + WritesCarried = Responses)
  /\ [][ /\ \A r \in Reqs :
              ResponseStep(r) /\ req[r].op = "redirect_url" =>
                UNCHANGED << clicks, tasks, next_click_id >>
         /\ WriteStep =>
              /\ \E t \in BagToSet(tasks) : tasks' = tasks (-) SetToBag({t})
              /\ UNCHANGED << urls, bundles, req, resolved >> ]_vars

\* A drop was resolved twice; one click-record write was accepted, another
\* was rejected because the drop had been deleted by then.
C22_Witness ==
  /\ Responses = 2
  /\ WritesRun = 2 /\ WritesWaiting = 0 /\ WritesCarried = 0
  /\ NoDrops
  /\ \E r \in Reqs :
        /\ req[r].op = "delete_drop" /\ req[r].out = "Purged"
        /\ Cardinality(req[r].cascade) = 1

\* C26: every stored click references exactly one drop, and that drop is
\* stored; so once delete_drop has returned Purged no click references the
\* deleted drop, also when a click-record write enqueued by an earlier
\* redirect runs after the deletion.
C26_ClicksReferenceStoredDrop ==
  /\ \A c \in DOMAIN clicks :
        /\ (clicks[c].url_id = None) # (clicks[c].bundle_id = None)
        /\ clicks[c].url_id # None => Val(clicks[c].url_id) \in DOMAIN urls
        /\ clicks[c].bundle_id # None =>
             Val(clicks[c].bundle_id) \in DOMAIN bundles
  /\ \A r \in Reqs :
        req[r].op = "delete_drop" /\ req[r].out = "Purged" =>
          \A c \in DOMAIN clicks :
             ClickKey(clicks[c]) # << req[r].kind, Val(req[r].loaded).id >>

\* A drop with a recorded click was purged, and the write of another
\* redirect of that drop ran after the deletion.
C26_Witness ==
  \E r \in Reqs :
     /\ req[r].op = "delete_drop" /\ req[r].out = "Purged"
     /\ req[r].cascade # {}
     /\ DOMAIN resolved = {<< req[r].kind, Val(req[r].loaded).id >>}
     /\ WritesRun > Cardinality(req[r].cascade)
     /\ WritesWaiting = 0 /\ WritesCarried = 0
     /\ clicks = << >>

(***************************************************************************)
(* SpecUnlock: one request at a time.  User 1 publishes up to two drops    *)
(* under slugs of their own choice, with or without password, cap and      *)
(* expiry, and may put a password on a single link later; visitors follow  *)
(* the slugs and submit passwords to the unlock operation; time passes.    *)
(***************************************************************************)
UnlockSlugs == {"go", "to"}
UnlockTargets == {"https://t.example/a", "https://t.example/b"}
UnlockProfiles ==
  [ pw : {None, Some("pw")}, cap : {None, Some(1)}, exp : {None, Some(0)} ]

\* Bodies of POST /unlock/{slug}: a JSON object, with or without the key,
\* the value under it null or a string; two of the strings hold a
\* surrogate, after the right password and on its own.
UnlockBodies ==
  { [password |-> a] :
      a \in {None, Some(JsonNull)} \cup
            {Some(JsonString(p)) :
               p \in { << >>, << Run("pw") >>, << Run("no") >>,
                       << Run("pw"), Surrogate(FirstSurrogate) >>,
                       << Surrogate(LastSurrogate) >> }} }

UnlockPublishUrl ==
  \E s \in UnlockSlugs, to \in UnlockTargets, p \in UnlockProfiles :
     /\ Quiet
     /\ ShortenStart(1, Some(1),
          [URLCreate(Some(s), p.cap, None, p.exp, p.pw, None, Some(FALSE))
             EXCEPT !.long_url = to])

UnlockPublishBundle ==
  \E s \in UnlockSlugs, p \in UnlockProfiles :
     /\ Quiet
     /\ BundleStart(1, Some(1),
          BundleCreate(Some(s), p.cap, None, p.exp, p.pw, None, Some(FALSE)))

UnlockProtect ==
  \E slug \in UnlockSlugs :
     /\ Quiet
     /\ UpdateUrlStart(1, Some(1), slug,
          [URLUpdateSlug(None) EXCEPT !.password = Some("pw")])

UnlockVisit ==
  \E slug \in UnlockSlugs : Quiet /\ RedirectStart(1, slug, "curl", None)

UnlockAttempt ==
  \E slug \in UnlockSlugs \cup {"zz"}, data \in UnlockBodies :
     Quiet /\ UnlockUrl(1, slug, data)

UnlockNext ==
  \/ UnlockPublishUrl
  \/ UnlockPublishBundle
  \/ UnlockProtect
  \/ UnlockVisit
  \/ UnlockAttempt
  \/ UnlockSelectUrl(1)
  \/ ShortenSelectBundle(1)
  \/ ShortenInsert(1)
  \/ BundleSelectBundle(1)
  \/ BundleFlush(1)
  \/ BundleCommit(1)
  \/ BundleRefresh(1)
  \/ UpdateUrlSelect(1)
  \/ UpdateUrlCommit(1)
  \/ UpdateUrlRefresh(1)
  \/ RedirectSelectUrl(1)
  \/ RedirectCommit(1)
  \/ Respond(1)
  \/ QuietTick

SpecUnlock == Init /\ [][UnlockNext]_vars

Unlocking(r) == req[r].op = "unlock_url" /\ req[r].pc = "done"

\* The true target of a drop: the viewer page of a bundle, the long URL of
\* a single link.
TrueTarget(d, slug) ==
  IF IsBundle(d) THEN FRONTEND_URL \o "/bundle/" \o slug ELSE d.long_url

\* The submitted value is a password that has a hash, the stored one.
AttemptMatches(d, attempt) ==
  CanEncode(attempt) /\ d.password = Some(Sha256(Text(attempt.text)))

\* C23: unlock(slug, attempt) returns the drop's true target exactly when
\* the hash of the attempt equals the stored password hash; any other
\* attempt fails with IncorrectCredential and discloses no target; an
\* unknown slug fails with NotFound.
C23_UnlockExactlyOnMatch ==
  \A r \in Reqs :
     Unlocking(r) =>
       /\ ~DropExists(r) => req[r].out = "NotFound" /\ req[r].target = ""
       /\ ForDrop(r, LAMBDA d :
            IF AttemptMatches(d, Attempt(req[r].data))
              THEN /\ req[r].out = "Unlocked"
                   /\ req[r].target = TrueTarget(d, req[r].slug)
              ELSE /\ req[r].out = "IncorrectCredential"
                   /\ req[r].target = "")

\* C24: for a password-protected drop that is past its expiry or has
\* reached its cap, neither the redirect nor an unlock with the correct
\* password returns the drop's true target.
C24_UnlockKeepsExpiryAndCap ==
  \A r \in Reqs :
     req[r].pc = "done" /\ req[r].op \in {"redirect_url", "unlock_url"} =>
       ForDrop(r, LAMBDA d :
          Protected(d) /\ (PastExpiry(d) \/ CapReached(d)) =>
            req[r].target # TrueTarget(d, req[r].slug))

(***************************************************************************)
(* SpecStats: the report of a drop that has been followed from several     *)
(* pages.  It starts after the redirects and their click-record writes:    *)
(* one drop under the slug "go", of either variant, with up to             *)
(* MaxPerReferer clicks per referrer, the redirects spread over three      *)
(* hours.  The report is then asked for.                                   *)
(***************************************************************************)
\* Values of the Referer header; None when the header is absent.
Referers ==
  << None, Some(""), Some("https://a.example/"), Some("https://b.example/"),
     Some("https://c.example/"), Some("https://d.example/"),
     Some("https://e.example/") >>

\* The time, in seconds, of the redirects that came from each referrer.
ClickTimes ==
  << 0, 1, SecondsPerHour - 1, SecondsPerHour, SecondsPerHour,
     SecondsPerHour + 1, SecondsPerHour + SecondsPerHour >>

\* Clicks received from the first k referrers.
RECURSIVE ClicksUpTo(_, _)
ClicksUpTo(cnt, k) == IF k = 0 THEN 0 ELSE cnt[k] + ClicksUpTo(cnt, k - 1)

\* The clicks table after those redirects, as track_click wrote the rows.
ClicksFrom(kind, cnt) ==
  [ i \in 1..ClicksUpTo(cnt, Len(Referers)) |->
      LET k == CHOOSE k \in 1..Len(Referers) :
                 ClicksUpTo(cnt, k - 1) < i /\ i <= ClicksUpTo(cnt, k)
      IN [ id |-> i,
           url_id |-> IF kind = "url" THEN Some(1) ELSE None,
           bundle_id |-> IF kind = "bundle" THEN Some(1) ELSE None,
           timestamp |-> ClickTimes[k], referer |-> Referers[k],
           user_agent |-> "curl",
           device_type |-> Some(DeviceType("curl")) ] ]

StatsInit ==
  \E kind \in {"url", "bundle"},
     cnt \in [1..Len(Referers) -> 0..MaxPerReferer] :
     LET total == ClicksUpTo(cnt, Len(Referers))
         u == NewURL(1, "go", Some(1),
                     URLCreate(Some("go"), None, None, None, None, None,
                               Some(FALSE)))
         b == NewBundle(1, "go", Some(1),
                        BundleCreate(Some("go"), None, None, None, None, None,
                                     Some(FALSE)))
     IN /\ urls = IF kind = "url"
                    THEN Put(<< >>, 1, [u EXCEPT !.clicks = total])
                    ELSE << >>
        /\ bundles = IF kind = "bundle"
                       THEN Put(<< >>, 1, [b EXCEPT !.clicks = total])
                       ELSE << >>
        /\ clicks = ClicksFrom(kind, cnt)
        /\ collabs = << >>
        /\ notifs = << >>
        /\ next_url_id = IF kind = "url" THEN 2 ELSE 1
        /\ next_bundle_id = IF kind = "bundle" THEN 2 ELSE 1
        /\ next_click_id = total + 1
        /\ next_collab_id = 1
        /\ next_notif_id = 1
        /\ req = [r \in Reqs |-> IdleReq]
        /\ tasks = EmptyBag
        /\ now = ClickTimes[Len(ClickTimes)]
        /\ resolved = IF total = 0 THEN [k \in {} |-> 0]
                      ELSE Put(<< >>, << kind, 1 >>, total)

StatsGet == \E slug \in {"go", "zz"} : Quiet /\ GetStats(1, None, slug)

StatsNext ==
  \/ StatsGet
  \/ StatsSelectUrl(1)
  \/ StatsHistory(1)
  \/ StatsDevices(1)
  \/ StatsReferers(1)
  \/ Respond(1)

SpecStats == StatsInit /\ [][StatsNext]_vars

\* The referrers of the reported drop with their click counts, a null
\* referer counted as Direct.
RefererCounts(r) ==
  LET rows == ClicksOf(req[r].kind, Val(req[r].loaded).id)
      name(c) == IF clicks[c].referer = None THEN "Direct"
                 ELSE Val(clicks[c].referer)
  IN { [referer |-> n,
        count |-> Cardinality({c \in rows : name(c) = n})] :
         n \in {name(c) : c \in rows} }

\* C25: top_referers lists at most 5 referrers of the drop, each once and
\* with its count, all of them when there are no more than 5, and no
\* referrer left out has a strictly higher count than one that is in the
\* list.
C25_TopReferersByCount ==
  \A r \in Reqs :
     req[r].op = "get_stats" /\ req[r].out = "Report" =>
       LET top == Val(req[r].obj).top_referers
           listed == { top[i] : i \in DOMAIN top }
           all == RefererCounts(r)
       IN /\ listed \subseteq all
          /\ Cardinality(listed) = Len(top)
          /\ Len(top) <= TopReferers
          /\ Cardinality(all) <= TopReferers => listed = all
          /\ \A g \in all \ listed : \A h \in listed : g.count <= h.count

(***************************************************************************)
(* Who granted the roles that bundles resolve.                             *)
(***************************************************************************)
\* C27: every bundle-scoped Collaboration row (bundle_id = B) has owner_id
\* equal to the owner of bundle B, so that nobody but B's owner, by
\* invite_collaborator calls naming B's id, makes another user manager or
\* analyst on B.
C27_GrantsComeFromOwner ==
  \A c \in DOMAIN collabs :
     collabs[c].bundle_id # None =>
       \A b \in DOMAIN bundles :
          collabs[c].bundle_id = Some(b) =>
            bundles[b].user_id = Some(collabs[c].owner_id)

\* The grants owner o had given user s when request r arrived.
GrantsFrom(r, o, s) ==
  LET pre == Val(req[r].pre)
  IN { pre.collabs[c] : c \in { c \in DOMAIN pre.collabs :
                                  /\ pre.collabs[c].owner_id = o
                                  /\ pre.collabs[c].collaborator_id = s } }

\* C28: a user whose grants from owner O all carry role analyst, global or
\* bundle-scoped, is rejected by update_bundle on O's bundles, also on one
\* whose access_level is edit, and the bundle stays as it was.
C28_AnalystCannotUpdate ==
  \A r \in Reqs, o \in Users, s \in Users :
     /\ s # o
     /\ req[r].op = "update_bundle"
     /\ req[r].pc \in {"check_url", "check_bundle", "commit", "refresh",
                       "done"}
     /\ req[r].user = Some(s)
     /\ GrantsFrom(r, o, s) # {}
     /\ \A g \in GrantsFrom(r, o, s) : g.role = Some("analyst")
     => ForDrop(r, LAMBDA d :
          IsBundle(d) /\ d.user_id = Some(o) =>
            /\ req[r].pc = "done" /\ req[r].out = "NotAuthorized"
            /\ d.id \in DOMAIN bundles /\ bundles[d.id] = d)

(***************************************************************************)
(* Reachability of accepted drops.                                         *)
(***************************************************************************)
\* C30: a drop that shorten_url or create_bundle accepted is reachable
\* under its slug: for a stored drop that is neither past its expiry nor at
\* its cap the redirect never returns NotFound, whatever the slug.
C30_AcceptedDropIsReachable ==
  \A r \in Reqs :
     Visited(r) =>
       ForDrop(r, LAMBDA d :
          ~PastExpiry(d) /\ ~CapReached(d) => req[r].out # "NotFound")

====
